---- MODULE Spec2Model ----
(***************************************************************************)
(* jam-nodes: the node execution contract, its playground callers, the     *)
(* schema-driven mock synthesis, the execution context and the resilient   *)
(* fetch primitive, as state machines.                                     *)
(*                                                                         *)
(* Each component has its own variables and its own specification          *)
(* (SpecFetch, SpecRegistry, SpecPath, SpecServices, SpecMock, SpecCallers,*)
(* SpecExec, SpecIntrospect, SpecServer, SpecAnalyze); a component's       *)
(* specification leaves the other components' variables in their initial   *)
(* state.  SpecExecLive is SpecExec with every enabled step eventually     *)
(* taken.                                                                  *)
(***************************************************************************)
EXTENDS Integers, Sequences, FiniteSets, TLC

VARIABLES
    \* ---- fetchWithRetry (one logical call) ----
    fPhase,      \* "idle" | "ready" | "inflight" | "backoff" | "returned" | "failed"
    fPolicy,     \* [maxRetries, backoffMs, timeoutMs]
    fAttempts,   \* physical attempts started so far
    fInFlight,   \* physical attempts currently in flight
    fOutcomes,   \* outcome of every finished attempt, in order
    fDelays,     \* the backoff delay slept before each retry, in order
    fHandle,     \* the returned response handle, or NoHandle
    fError       \* the raised error, or NoError

fetchVars == <<fPhase, fPolicy, fAttempts, fInFlight, fOutcomes, fDelays, fHandle, fError>>

VARIABLES
    \* ---- NodeRegistry ----
    regDefs,     \* the registered definitions, in insertion order
    regCalls,    \* number of register calls made so far
    regCall      \* the last register call: [def, outcome]

regVars == <<regDefs, regCalls, regCall>>

VARIABLES
    \* ---- ExecutionContext.resolveNestedPath ----
    ctxVariables,  \* context.variables
    rpCalled,      \* whether resolveNestedPath has been called
    rpPath,        \* the path of the last call, as its '.'-separated segments
    rpOutcome      \* the outcome of the last call: [threw, value]

pathVars == <<ctxVariables, rpCalled, rpPath, rpOutcome>>

VARIABLES
    \* ---- services map built per execution ----
    svcCaller,       \* "none" | "web" | "cli": who built the map
    svcCredentials,  \* the names under which the caller's mapping holds credentials
    svcServices      \* the services map: service name -> handle or AbsentService

svcVars == <<svcCaller, svcCredentials, svcServices>>

VARIABLES
    \* ---- mock synthesis (playground CLI and playground-web) ----
    mkClock,     \* the wall clock read by `new Date()`
    mkWebLoad,   \* the clock value at which the web module was loaded
    mkPrev,      \* the call before the last one, or NoMockCall
    mkLast       \* the last call: [fn, impl, nodeType, schema, at, value]

mockVars == <<mkClock, mkWebLoad, mkPrev, mkLast>>

VARIABLES
    \* ---- one executor call ----
    exNode,      \* the node type whose executor was invoked, or "none"
    exPc,        \* "idle" | "entered" | the await the call is at | "done"
    exInput,     \* the validated input: [keywords, units, maxResults, limit]
    exContext,   \* the context: [credentials, variables]
    exUnits,     \* the units the executor loops over
    exIndex,     \* the unit the loop is at
    exKept,      \* units whose result was pushed to the output
    exPushed,    \* what was pushed to the output array, in order
    exFetches,   \* fetchWithRetry calls issued so far
    exElapsed,   \* polling rounds elapsed in waitForVideoCompletion
    exLast,      \* what the last downstream call did
    exLog,       \* the downstream calls and the sleeps so far, in order
    exSettled,   \* "pending" | "fulfilled" | "rejected"
    exResult     \* the value the call returned, or NoResult

execVars == <<exNode, exPc, exInput, exContext, exUnits, exIndex, exKept, exPushed, exFetches,
              exElapsed,
              exLast, exLog, exSettled, exResult>>

VARIABLES
    \* ---- one request to a caller of the registry ----
    clCaller,       \* "web" | "cli" | "none"
    clPc,           \* "idle" | "posted" | "executing" | "done"
    clRequest,      \* [nodeType, input, mockMode, badJson, credentials]
    clInvocations,  \* the values node.executor was invoked with, in order
    clContext,      \* the context node.executor was invoked with, or Undefined
    clCredentialOps,\* the credential reads and prompts made, in order
    clReply         \* what the caller reported: [status, body]

callerVars == <<clCaller, clPc, clRequest, clInvocations, clContext, clCredentialOps, clReply>>

VARIABLES
    \* ---- schema introspection of one selected node ----
    inSchema,    \* the schema selected, or NoSchema
    inFields,    \* extractFieldsFromSchema's result: [ran, value]
    inPrompts,   \* generatePromptsFromSchema's result: [ran, value]
    inExample,   \* generateExampleFromSchema's result: [ran, value]
    inMock,      \* the CLI generateMockFromSchema's result: [ran, value]
    inWebMock    \* the web generateMockFromSchema's result: [ran, value]

introspectVars == <<inSchema, inFields, inPrompts, inExample, inMock, inWebMock>>

VARIABLES
    \* ---- the web route module and the requests it is handling ----
    rqLoaded,      \* whether the route module has been loaded
    rqRegistry,    \* the module-level registry: its definitions, in order
    rqPc,          \* per request: "idle" | "executing" | "done"
    rqRequest,     \* per request: [nodeType, mockMode, accepted]
    rqContext,     \* per request: the objects of its context, or NoRequestContext
    rqReached,     \* per request: the objects its executor has reached, and how
    rqNextObject,  \* the identity of the next object allocated
    rqReply        \* per request: the response status, or "none"

serverVars ==
    <<rqLoaded, rqRegistry, rqPc, rqRequest, rqContext, rqReached, rqNextObject, rqReply>>

VARIABLES
    \* ---- the posts of one social_ai_analyze call ----
    anPc,        \* "idle" | "batching" | "done"
    anPosts,     \* allPosts: the ids of the input posts, in order
    anNext,      \* the position in allPosts where the next batch starts
    anAnalyzed,  \* allAnalyzedPosts so far
    anResult     \* the Result returned, or NoResult

analyzeVars == <<anPc, anPosts, anNext, anAnalyzed, anResult>>

vars ==
    <<fetchVars, regVars, pathVars, svcVars, mockVars, execVars, callerVars, introspectVars,
      serverVars, analyzeVars>>

\* What each component's actions leave alone.
notFetchVars == <<regVars, pathVars, svcVars, mockVars, execVars, callerVars, introspectVars,
      serverVars, analyzeVars>>
notRegVars == <<fetchVars, pathVars, svcVars, mockVars, execVars, callerVars, introspectVars,
      serverVars, analyzeVars>>
notPathVars == <<fetchVars, regVars, svcVars, mockVars, execVars, callerVars, introspectVars,
      serverVars, analyzeVars>>
notSvcVars == <<fetchVars, regVars, pathVars, mockVars, execVars, callerVars, introspectVars,
      serverVars, analyzeVars>>
notMockVars == <<fetchVars, regVars, pathVars, svcVars, execVars, callerVars, introspectVars,
      serverVars, analyzeVars>>
notExecVars == <<fetchVars, regVars, pathVars, svcVars, mockVars, callerVars, introspectVars,
      serverVars, analyzeVars>>
notCallerVars == <<fetchVars, regVars, pathVars, svcVars, mockVars, execVars, introspectVars,
      serverVars, analyzeVars>>
notIntrospectVars == <<fetchVars, regVars, pathVars, svcVars, mockVars, execVars, callerVars,
      serverVars, analyzeVars>>
notServerVars ==
    <<fetchVars, regVars, pathVars, svcVars, mockVars, execVars, callerVars, introspectVars,
      analyzeVars>>
notAnalyzeVars ==
    <<fetchVars, regVars, pathVars, svcVars, mockVars, execVars, callerVars, introspectVars,
      serverVars>>

(***************************************************************************)
(* Resilient fetch: fetchWithRetry(url, requestSpec, policy).              *)
(* The implementation (utils/http.js) is re-exported by utils/index.ts and *)
(* called by every integration; its body is modelled from the design       *)
(* document, section 4.2.                                                  *)
(***************************************************************************)

\* Bound on the maxRetries values the model draws policies from.
MaxRetriesBound == 3

\* maxRetries of every call site in the nodes package.
CallSiteMaxRetries == 3

\* What one physical attempt can end in: a response status, a network-level
\* failure, or the per-attempt timeout.
Statuses == {200, 404, 429, 500, 503}

AttemptOutcomes ==
    [kind : {"response"}, status : Statuses]
        \cup {[kind |-> "network", status |-> 0], [kind |-> "timeout", status |-> 0]}

Policies ==
    [maxRetries : 0..MaxRetriesBound, backoffMs : {0, 1000}, timeoutMs : {30000, 60000}]

NoHandle == [ok |-> FALSE, status |-> 0, attempt |-> 0]
NoError == [name |-> "none", status |-> 0, kind |-> "none"]
NoPolicy == [maxRetries |-> 0, backoffMs |-> 0, timeoutMs |-> 0]

\* A response is ok when its status is 2xx.
IsOk(status) == status >= 200 /\ status < 300

\* Retry eligibility: network-level failures, timed-out attempts and server
\* error responses (status >= 500) are retried; everything else is not.
IsRetryableMutant(o) == o.kind \in {"network", "timeout"} \/ o.status >= 400

IsRetryable(o) == o.kind \in {"network", "timeout"} \/ o.status >= 500

\* Whether another physical attempt may follow `attempts` finished ones.
HasRetryLeftMutant(attempts, policy) == attempts <= policy.maxRetries + 1

HasRetryLeft(attempts, policy) == attempts < policy.maxRetries + 1

\* The delay slept before the retry-th retry: the configured backoffMs.
BackoffDelayMutant(policy, retry) == policy.backoffMs \div retry

BackoffDelay(policy, retry) == policy.backoffMs

FetchInit ==
    /\ fPhase = "idle"
    /\ fPolicy = NoPolicy
    /\ fAttempts = 0
    /\ fInFlight = 0
    /\ fOutcomes = <<>>
    /\ fDelays = <<>>
    /\ fHandle = NoHandle
    /\ fError = NoError

\* The caller invokes fetchWithRetry with a policy.
FetchCall ==
    /\ fPhase = "idle"
    /\ \E p \in Policies : fPolicy' = p
    /\ fPhase' = "ready"
    /\ UNCHANGED <<fAttempts, fInFlight, fOutcomes, fDelays, fHandle, fError>>
    /\ UNCHANGED notFetchVars

\* One physical attempt is issued.
FetchStartAttempt ==
    /\ fPhase = "ready"
    /\ fPhase' = "inflight"
    /\ fAttempts' = fAttempts + 1
    /\ fInFlight' = fInFlight + 1
    /\ UNCHANGED <<fPolicy, fOutcomes, fDelays, fHandle, fError>>
    /\ UNCHANGED notFetchVars

\* The attempt in flight ends with a response that is handed to the caller:
\* an ok response, or a non-retryable (client error) response.
FetchAttemptReturns ==
    /\ fPhase = "inflight"
    /\ \E o \in AttemptOutcomes :
        /\ ~IsRetryable(o)
        /\ fOutcomes' = Append(fOutcomes, o)
        /\ fHandle' = [ok |-> IsOk(o.status), status |-> o.status, attempt |-> fAttempts]
    /\ fInFlight' = fInFlight - 1
    /\ fPhase' = "returned"
    /\ UNCHANGED <<fPolicy, fAttempts, fDelays, fError>>
    /\ UNCHANGED notFetchVars

\* The attempt in flight ends in a retryable failure and a retry is left:
\* the call suspends for backoffMs.
FetchAttemptRetries ==
    /\ fPhase = "inflight"
    /\ HasRetryLeft(fAttempts, fPolicy)
    /\ \E o \in AttemptOutcomes :
        /\ IsRetryable(o)
        /\ fOutcomes' = Append(fOutcomes, o)
    /\ fInFlight' = fInFlight - 1
    /\ fDelays' = Append(fDelays, BackoffDelay(fPolicy, Len(fDelays) + 1))
    /\ fPhase' = "backoff"
    /\ UNCHANGED <<fPolicy, fAttempts, fHandle, fError>>
    /\ UNCHANGED notFetchVars

\* The backoff delay elapses.
FetchBackoffElapsed ==
    /\ fPhase = "backoff"
    /\ fPhase' = "ready"
    /\ UNCHANGED <<fPolicy, fAttempts, fInFlight, fOutcomes, fDelays, fHandle, fError>>
    /\ UNCHANGED notFetchVars

\* The attempt in flight ends in a retryable failure and no retry is left:
\* the call fails with a typed error carrying the last status.
FetchAttemptExhausts ==
    /\ fPhase = "inflight"
    /\ ~HasRetryLeft(fAttempts, fPolicy)
    /\ \E o \in AttemptOutcomes :
        /\ IsRetryable(o)
        /\ fOutcomes' = Append(fOutcomes, o)
        /\ fError' = [name |-> "FetchRetryError", status |-> o.status, kind |-> o.kind]
    /\ fInFlight' = fInFlight - 1
    /\ fPhase' = "failed"
    /\ UNCHANGED <<fPolicy, fAttempts, fDelays, fHandle>>
    /\ UNCHANGED notFetchVars

NextFetch ==
    \/ FetchCall
    \/ FetchStartAttempt
    \/ FetchAttemptReturns
    \/ FetchAttemptRetries
    \/ FetchBackoffElapsed
    \/ FetchAttemptExhausts

(***************************************************************************)
(* Claims about fetchWithRetry.                                            *)
(***************************************************************************)

FetchFinished == fPhase \in {"returned", "failed"}

AllOutcomesRetryable == \A i \in 1..Len(fOutcomes) : IsRetryable(fOutcomes[i])

IsClientError(o) == o.kind = "response" /\ o.status >= 400 /\ o.status < 500

\* C4: one fetchWithRetry call performs at most maxRetries + 1 physical
\* attempts; a call all of whose attempts ended in a retryable failure has
\* performed exactly maxRetries + 1 attempts (4 for the call sites'
\* maxRetries = 3) and has failed with an error, without returning a handle.
Thm_C4_AttemptBudget ==
    /\ fAttempts <= fPolicy.maxRetries + 1
    /\ (FetchFinished /\ AllOutcomesRetryable) =>
            /\ fAttempts = fPolicy.maxRetries + 1
            /\ Len(fOutcomes) = fPolicy.maxRetries + 1
            /\ fPhase = "failed"
            /\ fError.name = "FetchRetryError"
            /\ fHandle = NoHandle
            /\ (fPolicy.maxRetries = CallSiteMaxRetries => fAttempts = 4)

Wit_C4_Exhausted ==
    /\ fPhase = "failed"
    /\ fPolicy.maxRetries = CallSiteMaxRetries
    /\ fAttempts = 4
    /\ \A i \in 1..Len(fOutcomes) : fOutcomes[i] = [kind |-> "response", status |-> 500]

\* C5: an attempt that receives a client-error response (4xx) is the last
\* attempt of the call: the call has returned, the returned handle is the
\* non-ok handle of that attempt, and no error was raised.
Thm_C5_ClientErrorReturned ==
    \A i \in 1..Len(fOutcomes) :
        IsClientError(fOutcomes[i]) =>
            /\ i = Len(fOutcomes)
            /\ fAttempts = i
            /\ fInFlight = 0
            /\ fPhase = "returned"
            /\ fHandle = [ok |-> FALSE, status |-> fOutcomes[i].status, attempt |-> i]
            /\ fError = NoError

Wit_C5_NotFoundOnce ==
    /\ fPhase = "returned"
    /\ fAttempts = 1
    /\ fOutcomes = <<[kind |-> "response", status |-> 404]>>
    /\ fPolicy.maxRetries = CallSiteMaxRetries

\* C15: within one fetchWithRetry call at most one physical attempt is in
\* flight, none while the call is suspended in a backoff delay, and every
\* retry is preceded by one delay of the configured backoffMs, so that no
\* later delay is shorter than an earlier one.
Thm_C15_OneAttemptAfterBackoff ==
    /\ fInFlight <= 1
    /\ fInFlight = 1 <=> fPhase = "inflight"
    /\ fAttempts > 0 =>
         Len(fDelays) = IF fPhase \in {"backoff", "ready"} THEN fAttempts ELSE fAttempts - 1
    /\ \A i \in 1..Len(fDelays) : fDelays[i] = fPolicy.backoffMs
    /\ \A i, j \in 1..Len(fDelays) : i < j => fDelays[i] <= fDelays[j]

\* The second retry is in flight after two delays of 1000 ms.
Wit_C15_SecondRetryInFlight ==
    /\ fPhase = "inflight"
    /\ fAttempts = 3
    /\ fInFlight = 1
    /\ fDelays = <<1000, 1000>>

(***************************************************************************)
(* Node registry: createRegistry() / NodeRegistry.  The class lives in     *)
(* registry/index.js, re-exported by core/src/index.ts and used by the     *)
(* playground callers; its body is modelled from the design document,      *)
(* section 4.3.                                                            *)
(***************************************************************************)

\* Bound on the number of register calls of one run.
MaxRegisterCalls == 4

NodeTypes == {"conditional", "search_contacts", "sora_video"}

\* Two definitions of the same type differ in their display name.
Definitions == [type : NodeTypes, name : {"first", "second"}]

NoDefinition == [type |-> "none", name |-> "none"]

NoRegisterCall == [def |-> NoDefinition, outcome |-> "none"]

RECURSIVE LookupFrom(_, _, _)
LookupFrom(defs, type, i) ==
    IF i > Len(defs) THEN NoDefinition
    ELSE IF defs[i].type = type THEN defs[i]
    ELSE LookupFrom(defs, type, i + 1)

\* registry.getDefinition(type): the definition, or the absent marker.
GetDefinition(defs, type) == LookupFrom(defs, type, 1)

HasType(defs, type) == \E i \in 1..Len(defs) : defs[i].type = type

RegisteredTypes(defs) == {defs[i].type : i \in 1..Len(defs)}

\* getAllMetadata(): the display projection, in insertion order.
GetAllMetadata(defs) == [i \in 1..Len(defs) |-> [type |-> defs[i].type, name |-> defs[i].name]]

\* register(definition): the registry after the call and the call's outcome.
RegisterMutant(defs, d) ==
    IF HasType(defs, d.type)
    THEN [defs |-> [i \in 1..Len(defs) |-> IF defs[i].type = d.type THEN d ELSE defs[i]],
          outcome |-> "threw"]
    ELSE [defs |-> Append(defs, d), outcome |-> "registered"]

Register(defs, d) ==
    IF HasType(defs, d.type)
    THEN [defs |-> defs, outcome |-> "threw"]
    ELSE [defs |-> Append(defs, d), outcome |-> "registered"]

RegInit ==
    /\ regDefs = <<>>
    /\ regCalls = 0
    /\ regCall = NoRegisterCall

RegisterCall ==
    /\ regCalls < MaxRegisterCalls
    /\ \E d \in Definitions :
        LET r == Register(regDefs, d) IN
        /\ regDefs' = r.defs
        /\ regCall' = [def |-> d, outcome |-> r.outcome]
    /\ regCalls' = regCalls + 1
    /\ UNCHANGED notRegVars

NextRegistry == RegisterCall

\* C6: a register call whose type is already registered fails and leaves the
\* registry unchanged: the lookup of that type returns the same definition
\* as before the call and the set of registered types is the same.
Thm_C6_DuplicateRegisterRejected ==
    [][(regCalls' = regCalls + 1 /\ HasType(regDefs, regCall'.def.type)) =>
            /\ regCall'.outcome = "threw"
            /\ regDefs' = regDefs
            /\ GetDefinition(regDefs', regCall'.def.type)
                    = GetDefinition(regDefs, regCall'.def.type)
            /\ RegisteredTypes(regDefs') = RegisteredTypes(regDefs)]_vars

Wit_C6_SecondRegistrationRefused ==
    /\ regCall.outcome = "threw"
    /\ regCall.def.name = "second"
    /\ GetDefinition(regDefs, regCall.def.type).name = "first"

(***************************************************************************)
(* JavaScript values, as far as the playground code inspects them.         *)
(***************************************************************************)

Undefined == [t |-> "undefined"]
Null == [t |-> "null"]
Num(n) == [t |-> "number", n |-> n]
Str(x) == [t |-> "string", s |-> x]
Bool(b) == [t |-> "boolean", b |-> b]
Fn(name) == [t |-> "function", f |-> name]
\* An object with its own properties in insertion order.
Obj(keys, vals) == [t |-> "object", keys |-> keys, vals |-> vals]
Arr(items) == [t |-> "array", items |-> items]

EmptyObj == Obj(<<>>, <<>>)

\* `if (v)`: undefined, null, 0, '' and false are falsy.
Truthy(v) ==
    CASE v.t = "undefined" -> FALSE
      [] v.t = "null" -> FALSE
      [] v.t = "number" -> v.n # 0
      [] v.t = "string" -> v.s # ""
      [] v.t = "boolean" -> v.b
      [] OTHER -> TRUE

\* `typeof v === 'object'`: objects, arrays and null.
TypeofObject(v) == v.t \in {"object", "array", "null"}

\* Property names every object inherits from Object.prototype.
InheritedKeys == {"constructor", "toString", "hasOwnProperty"}

HasOwn(o, k) == \E i \in 1..Len(o.keys) : o.keys[i] = k

OwnValue(o, k) == o.vals[CHOOSE i \in 1..Len(o.keys) : o.keys[i] = k]

\* Array index property names.
IndexKeys == {"0", "1", "2"}

IndexOf(k) == CASE k = "0" -> 1 [] k = "1" -> 2 [] k = "2" -> 3 [] OTHER -> 0

\* `v[k]`: a TypeError on undefined and null; an own property, else an
\* inherited one, else undefined on objects and arrays.
GetProp(v, k) ==
    CASE v.t \in {"undefined", "null"} -> [threw |-> TRUE, value |-> Undefined]
      [] v.t = "object" ->
            [threw |-> FALSE,
             value |-> IF HasOwn(v, k) THEN OwnValue(v, k)
                       ELSE IF k \in InheritedKeys THEN Fn(k)
                       ELSE Undefined]
      [] v.t = "array" ->
            [threw |-> FALSE,
             value |-> IF k \in IndexKeys /\ IndexOf(k) <= Len(v.items) THEN v.items[IndexOf(k)]
                       ELSE IF k = "length" THEN Num(Len(v.items))
                       ELSE IF k \in InheritedKeys THEN Fn(k)
                       ELSE Undefined]
      [] OTHER -> [threw |-> FALSE, value |-> Undefined]

(***************************************************************************)
(* ExecutionContext.resolveNestedPath, as built by the web handler and by  *)
(* the CLI run command (the two bodies are the same).                      *)
(***************************************************************************)

\* Bound on the nesting depth of the values stored in context.variables.
MaxValueDepth == 2

\* Bound on the number of segments of a path.
MaxPathLen == 3

VariableKeys == {"a", "b", "c"}

JsLeaves == {Null, Num(42), Num(0), Str("s"), Arr(<<Num(42)>>)}

ObjectsOver(S) ==
    {EmptyObj}
        \cup {Obj(<<k>>, <<v>>) : k \in VariableKeys, v \in S}
        \cup {Obj(<<"a", "b">>, <<v, Num(42)>>) : v \in S}

RECURSIVE ValuesUpTo(_)
ValuesUpTo(d) == IF d = 0 THEN JsLeaves ELSE JsLeaves \cup ObjectsOver(ValuesUpTo(d - 1))

VariableMappings == ObjectsOver(ValuesUpTo(MaxValueDepth))

\* path.split('.') of a path: a path string is represented by the list of
\* its '.'-free segments, which is what split returns (never empty).
PathSegments == VariableKeys \cup {"constructor", "0"}

Paths == UNION {[1..n -> PathSegments] : n \in 1..MaxPathLen}

\* The loop over parts, from segment i on.
RECURSIVE ResolveFromMutant(_, _, _)
ResolveFromMutant(current, parts, i) ==
    IF i > Len(parts) THEN [threw |-> FALSE, value |-> current]
    ELSE IF TypeofObject(current)
    THEN LET got == GetProp(current, parts[i]) IN
         IF got.threw THEN got ELSE ResolveFromMutant(got.value, parts, i + 1)
    ELSE [threw |-> FALSE, value |-> Undefined]

RECURSIVE ResolveFrom(_, _, _)
ResolveFrom(current, parts, i) ==
    IF i > Len(parts) THEN [threw |-> FALSE, value |-> current]
    ELSE IF Truthy(current) /\ TypeofObject(current)
    THEN LET got == GetProp(current, parts[i]) IN
         IF got.threw THEN got ELSE ResolveFrom(got.value, parts, i + 1)
    ELSE [threw |-> FALSE, value |-> Undefined]

\* resolveNestedPath(path) over context.variables.
ResolveNestedPath(variables, parts) == ResolveFrom(variables, parts, 1)

PathInit ==
    /\ ctxVariables = EmptyObj
    /\ rpCalled = FALSE
    /\ rpPath = <<>>
    /\ rpOutcome = [threw |-> FALSE, value |-> Undefined]

\* The host fills context.variables (the playground leaves it {}).
SetVariables ==
    /\ ~rpCalled
    /\ \E v \in VariableMappings : ctxVariables' = v
    /\ UNCHANGED <<rpCalled, rpPath, rpOutcome>>
    /\ UNCHANGED notPathVars

\* context.resolveNestedPath(path)
CallResolveNestedPath ==
    /\ ~rpCalled
    /\ \E p \in Paths :
        /\ rpPath' = p
        /\ rpOutcome' = ResolveNestedPath(ctxVariables, p)
    /\ rpCalled' = TRUE
    /\ UNCHANGED ctxVariables
    /\ UNCHANGED notPathVars

\* The caller has consumed the returned value.
ResolveConsumed ==
    /\ rpCalled
    /\ rpCalled' = FALSE
    /\ rpPath' = <<>>
    /\ rpOutcome' = [threw |-> FALSE, value |-> Undefined]
    /\ UNCHANGED ctxVariables
    /\ UNCHANGED notPathVars

NextPath == SetVariables \/ CallResolveNestedPath \/ ResolveConsumed

(***************************************************************************)
(* Claims about resolveNestedPath.                                         *)
(***************************************************************************)

\* Whether segment k is a member of the mapping or array v itself.
IsMember(v, k) ==
    CASE v.t = "object" -> HasOwn(v, k)
      [] v.t = "array" -> (k \in IndexKeys /\ IndexOf(k) <= Len(v.items)) \/ k = "length"
      [] OTHER -> FALSE

MemberValue(v, k) ==
    CASE v.t = "object" -> OwnValue(v, k)
      [] v.t = "array" -> IF k = "length" THEN Num(Len(v.items)) ELSE v.items[IndexOf(k)]

\* The value reached by following the segments through the members of the
\* mapping; absent (undefined) as soon as a segment is missing or the value
\* to index is not an object.
RECURSIVE Follow(_, _, _)
Follow(current, parts, i) ==
    IF i > Len(parts) THEN current
    ELSE IF current.t \in {"object", "array"} /\ IsMember(current, parts[i])
    THEN Follow(MemberValue(current, parts[i]), parts, i + 1)
    ELSE Undefined

\* C7: resolveNestedPath never throws, returns the value reached by following
\* the segments through variables, and returns undefined as soon as a
\* segment is missing or an intermediate value is not an object.
Cex_C7_ResolveFollowsMembers ==
    rpCalled =>
        /\ ~rpOutcome.threw
        /\ rpOutcome.value = Follow(ctxVariables, rpPath, 1)

\* The part of C7 the code keeps: no call throws, a.b.c over {a:{b:{c:42}}}
\* is 42, and a path all of whose segments are members is followed.
Aux_C7_NeverThrows ==
    rpCalled =>
        /\ ~rpOutcome.threw
        /\ (\A i \in 1..Len(rpPath) : rpPath[i] \notin InheritedKeys) =>
                rpOutcome.value = Follow(ctxVariables, rpPath, 1)

(***************************************************************************)
(* The services map: createServices (web handler) and createMockServices   *)
(* (CLI run command).                                                      *)
(***************************************************************************)

KnownServices == {"apollo", "forumScout", "twitter", "openai", "anthropic", "dataForSeo"}

\* The names a caller's credential mapping may use: the service names and
\* their all-lowercase spellings.
CredentialNames == KnownServices \cup {"forumscout", "dataforseo"}

AbsentService == [methods |-> {"<undefined>"}]

Handle(methods) == [methods |-> methods]

\* `credentials[name] ? handle : undefined`
SlotFor(credentials, name, methods) ==
    IF name \in credentials THEN Handle(methods) ELSE AbsentService

\* createServices(credentials) of the web handler.
CreateServices(credentials) ==
    [n \in KnownServices |->
        CASE n = "apollo" -> SlotFor(credentials, "apollo", {"searchContacts", "enrichContact"})
          [] n = "forumScout" -> SlotFor(credentials, "forumscout", {"searchReddit", "searchLinkedIn"})
          [] n = "twitter" -> SlotFor(credentials, "twitter", {"search"})
          [] n = "openai" -> SlotFor(credentials, "openai", {"generateVideo"})
          [] n = "anthropic" -> SlotFor(credentials, "anthropic", {"complete"})
          [] n = "dataForSeo" -> SlotFor(credentials, "dataforseo", {"getKeywords", "runAudit"})]

\* createMockServices(credentials) of the CLI run command.
CreateMockServices(credentials) ==
    [n \in KnownServices |->
        CASE n = "apollo" -> SlotFor(credentials, "apollo", {"searchContacts", "enrichContact"})
          [] n = "forumScout" -> SlotFor(credentials, "forumScout", {"searchReddit", "searchLinkedIn"})
          [] n = "twitter" -> SlotFor(credentials, "twitter", {"search"})
          [] n = "openai" -> SlotFor(credentials, "openai", {"generateVideo"})
          [] n = "anthropic" -> SlotFor(credentials, "anthropic", {"complete", "generateKeywords"})
          [] n = "dataForSeo" -> SlotFor(credentials, "dataForSeo", {"getKeywords", "runAudit"})]

NoServices == [n \in KnownServices |-> AbsentService]

SvcInit ==
    /\ svcCaller = "none"
    /\ svcCredentials = {}
    /\ svcServices = NoServices

\* POST /api/execute builds context.services from the request's credentials
\* (`credentials || {}`).
WebBuildServices ==
    /\ \E c \in SUBSET CredentialNames :
        /\ svcCredentials' = c
        /\ svcServices' = CreateServices(c)
    /\ svcCaller' = "web"
    /\ UNCHANGED notSvcVars

\* The run command builds context.services from the collected credentials.
CliBuildServices ==
    /\ \E c \in SUBSET CredentialNames :
        /\ svcCredentials' = c
        /\ svcServices' = CreateMockServices(c)
    /\ svcCaller' = "cli"
    /\ UNCHANGED notSvcVars

NextServices == WebBuildServices \/ CliBuildServices

\* C8: for every credential mapping and every known service name N, the
\* services map has a handle at N if and only if the mapping holds
\* credentials under the name N; otherwise the slot is absent.
Cex_C8_SlotIffCredential ==
    svcCaller # "none" =>
        \A n \in KnownServices :
            (svcServices[n] # AbsentService) <=> (n \in svcCredentials)

\* What holds of both callers: the CLI keys every slot by its service name;
\* the web handler does so for all slots but forumScout and dataForSeo, which
\* it keys by the lowercase spelling.
Aux_C8_SlotKeys ==
    svcCaller # "none" =>
        \A n \in KnownServices :
            LET key == IF svcCaller = "web" /\ n = "forumScout" THEN "forumscout"
                       ELSE IF svcCaller = "web" /\ n = "dataForSeo" THEN "dataforseo"
                       ELSE n
            IN (svcServices[n] # AbsentService) <=> (key \in svcCredentials)

(***************************************************************************)
(* Schema descriptions: the `_def` of a zod schema, by typeName.           *)
(***************************************************************************)

\* Bound on the nesting depth of the schemas the model draws.
MaxSchemaDepth == 2

ZString == [typeName |-> "ZodString"]
ZNumber == [typeName |-> "ZodNumber"]
ZBoolean == [typeName |-> "ZodBoolean"]
ZNull == [typeName |-> "ZodNull"]
ZUndefined == [typeName |-> "ZodUndefined"]
ZUnknown == [typeName |-> "ZodUnknown"]
ZAny == [typeName |-> "ZodAny"]
\* A variant the synthesizers have no arm for.
ZDate == [typeName |-> "ZodDate"]
ZLiteral(v) == [typeName |-> "ZodLiteral", value |-> v]
ZEnum(values) == [typeName |-> "ZodEnum", values |-> values]
\* values: the enum object, its properties in Object.values order.
ZNativeEnum(enumObj) == [typeName |-> "ZodNativeEnum", values |-> enumObj]
ZArray(item) == [typeName |-> "ZodArray", type |-> item]
\* shape(): the fields in declaration order.
ZObject(keys, fields) == [typeName |-> "ZodObject", keys |-> keys, shape |-> fields]
ZUnion(options) == [typeName |-> "ZodUnion", options |-> options]
\* options: the values of the discriminator -> option Map, in insertion order.
ZDiscriminatedUnion(disc, options) ==
    [typeName |-> "ZodDiscriminatedUnion", discriminator |-> disc, options |-> options]
ZOptional(inner) == [typeName |-> "ZodOptional", innerType |-> inner]
ZNullable(inner) == [typeName |-> "ZodNullable", innerType |-> inner]
\* defaultValue: the value the schema's defaultValue() returns.
ZDefault(inner, dv) == [typeName |-> "ZodDefault", innerType |-> inner, defaultValue |-> dv]
ZRecord(valueType) == [typeName |-> "ZodRecord", valueType |-> valueType]
ZTuple(items) == [typeName |-> "ZodTuple", items |-> items]
ZPromise(inner) == [typeName |-> "ZodPromise", type |-> inner]
\* A transforming effect over the inner schema.
ZEffects(inner) == [typeName |-> "ZodEffects", schema |-> inner]

\* enum Color { Red = 'red', Green = 'green' }
StringEnumObj == Obj(<<"Red", "Green">>, <<Str("red"), Str("green")>>)

\* enum Level { A, B }: the compiled object {0: 'A', 1: 'B', A: 0, B: 1},
\* whose integer-like keys come first in property order.
NumericEnumObj == Obj(<<"0", "1", "A", "B">>, <<Str("A"), Str("B"), Num(0), Num(1)>>)

SchemaLeaves ==
    {ZString, ZNumber, ZBoolean, ZNull, ZUndefined, ZUnknown, ZAny,
     ZLiteral(Str("twitter")), ZEnum(<<"draft", "sent">>),
     ZNativeEnum(StringEnumObj), ZNativeEnum(NumericEnumObj),
     ZDefault(ZOptional(ZNumber), Num(10)), ZDefault(ZOptional(ZBoolean), Bool(TRUE)),
     ZDefault(ZString, Str("sora-2"))}

SchemasOver(S) ==
    {ZArray(x) : x \in S}
        \cup {ZOptional(x) : x \in S}
        \cup {ZNullable(x) : x \in S}
        \cup {ZRecord(x) : x \in S}
        \cup {ZPromise(x) : x \in S}
        \cup {ZEffects(x) : x \in S}
        \cup {ZObject(<<"topic">>, <<x>>) : x \in S}
        \cup {ZObject(<<"value", "label">>, <<x, ZString>>) : x \in S}
        \cup {ZUnion(<<x, ZNumber>>) : x \in S}
        \cup {ZTuple(<<x, ZString>>) : x \in S}
        \cup {ZDiscriminatedUnion("kind",
                    <<ZObject(<<"kind", "data">>, <<ZLiteral(Str("one")), x>>),
                      ZObject(<<"kind", "count">>, <<ZLiteral(Str("two")), ZNumber>>)>>) : x \in S}

RECURSIVE SchemasUpTo(_)
SchemasUpTo(d) ==
    IF d = 0 THEN SchemaLeaves ELSE SchemaLeaves \cup SchemasOver(SchemasUpTo(d - 1))

\* Schemas built from the variants the synthesizers are specified for.
SupportedSchemas == SchemasUpTo(MaxSchemaDepth)

\* All schemas the model draws, one unsupported variant included.
Schemas == SupportedSchemas \cup {ZDate, ZArray(ZDate), ZObject(<<"topic">>, <<ZDate>>)}

(***************************************************************************)
(* generateFromDef of the playground CLI (utils/mock-generator.ts).        *)
(***************************************************************************)

\* Object.values(enumObj)[0]
FirstObjectValue(o) == IF Len(o.vals) = 0 THEN Undefined ELSE o.vals[1]

\* values[0] of a string array
FirstString(values) == IF Len(values) = 0 THEN Undefined ELSE Str(values[1])

RECURSIVE GenerateFromDef(_)
GenerateFromDef(def) ==
    CASE def.typeName = "ZodString" -> Str("mock_string")
      [] def.typeName = "ZodNumber" -> Num(42)
      [] def.typeName = "ZodBoolean" -> Bool(TRUE)
      [] def.typeName = "ZodNull" -> Null
      [] def.typeName = "ZodUndefined" -> Undefined
      [] def.typeName = "ZodLiteral" -> def.value
      [] def.typeName = "ZodEnum" -> FirstString(def.values)
      [] def.typeName = "ZodNativeEnum" -> FirstObjectValue(def.values)
      [] def.typeName = "ZodArray" ->
            Arr(<<GenerateFromDef(def.type), GenerateFromDef(def.type)>>)
      [] def.typeName = "ZodObject" ->
            Obj(def.keys, [i \in 1..Len(def.shape) |-> GenerateFromDef(def.shape[i])])
      [] def.typeName = "ZodUnion" ->
            IF Len(def.options) > 0 THEN GenerateFromDef(def.options[1]) ELSE Null
      [] def.typeName = "ZodDiscriminatedUnion" ->
            IF Len(def.options) > 0 THEN GenerateFromDef(def.options[1]) ELSE Null
      [] def.typeName \in {"ZodOptional", "ZodNullable"} -> GenerateFromDef(def.innerType)
      [] def.typeName = "ZodDefault" -> def.defaultValue
      [] def.typeName = "ZodRecord" ->
            Obj(<<"key1", "key2">>,
                <<GenerateFromDef(def.valueType), GenerateFromDef(def.valueType)>>)
      [] def.typeName = "ZodTuple" ->
            Arr([i \in 1..Len(def.items) |-> GenerateFromDef(def.items[i])])
      [] def.typeName = "ZodPromise" -> GenerateFromDef(def.type)
      [] def.typeName = "ZodEffects" -> GenerateFromDef(def.schema)
      [] def.typeName \in {"ZodUnknown", "ZodAny"} -> Obj(<<"mock">>, <<Str("data")>>)
      [] OTHER -> Null

\* generateMockFromSchema(schema) of the CLI
GenerateMockFromSchema(schema) == GenerateFromDef(schema)

(***************************************************************************)
(* generateFromDef of playground-web (lib/utils.ts).                       *)
(***************************************************************************)

RECURSIVE WebGenerateFromDef(_)
WebGenerateFromDef(def) ==
    CASE def.typeName = "ZodString" -> Str("mock_string")
      [] def.typeName = "ZodNumber" -> Num(42)
      [] def.typeName = "ZodBoolean" -> Bool(TRUE)
      [] def.typeName = "ZodNull" -> Null
      [] def.typeName = "ZodUndefined" -> Undefined
      [] def.typeName = "ZodLiteral" -> def.value
      [] def.typeName = "ZodEnum" -> FirstString(def.values)
      [] def.typeName = "ZodArray" -> Arr(<<WebGenerateFromDef(def.type)>>)
      [] def.typeName = "ZodObject" ->
            Obj(def.keys, [i \in 1..Len(def.shape) |-> WebGenerateFromDef(def.shape[i])])
      [] def.typeName \in {"ZodOptional", "ZodNullable"} -> WebGenerateFromDef(def.innerType)
      [] def.typeName = "ZodDefault" -> def.defaultValue
      [] OTHER -> Null

\* generateMockFromSchema(schema) of playground-web
WebGenerateMockFromSchema(schema) == WebGenerateFromDef(schema)

(***************************************************************************)
(* schema.parse(value) of the validation library (synchronous parse):      *)
(* whether the value is accepted.                                          *)
(***************************************************************************)

\* The member values of a native enum: the values of the keys that are not
\* reverse mappings of a numeric member.
ValidEnumValues(o) ==
    {o.vals[i] : i \in {j \in 1..Len(o.vals) :
        ~(HasOwn(o, o.keys[j]) /\ o.vals[j].t = "string" /\ HasOwn(o, o.vals[j].s)
            /\ OwnValue(o, o.vals[j].s).t = "number")}}

\* data[key] of a parsed object
Field(v, k) == IF HasOwn(v, k) THEN OwnValue(v, k) ELSE Undefined

RECURSIVE Accepts(_, _)
Accepts(def, v) ==
    CASE def.typeName = "ZodString" -> v.t = "string"
      [] def.typeName = "ZodNumber" -> v.t = "number"
      [] def.typeName = "ZodBoolean" -> v.t = "boolean"
      [] def.typeName = "ZodNull" -> v.t = "null"
      [] def.typeName = "ZodUndefined" -> v.t = "undefined"
      [] def.typeName = "ZodDate" -> FALSE
      [] def.typeName \in {"ZodUnknown", "ZodAny"} -> TRUE
      [] def.typeName = "ZodLiteral" -> v = def.value
      [] def.typeName = "ZodEnum" ->
            v.t = "string" /\ \E i \in 1..Len(def.values) : def.values[i] = v.s
      [] def.typeName = "ZodNativeEnum" ->
            v.t \in {"string", "number"} /\ v \in ValidEnumValues(def.values)
      [] def.typeName = "ZodArray" ->
            v.t = "array" /\ \A i \in 1..Len(v.items) : Accepts(def.type, v.items[i])
      [] def.typeName = "ZodObject" ->
            v.t = "object"
                /\ \A i \in 1..Len(def.keys) : Accepts(def.shape[i], Field(v, def.keys[i]))
      [] def.typeName = "ZodUnion" ->
            \E i \in 1..Len(def.options) : Accepts(def.options[i], v)
      [] def.typeName = "ZodDiscriminatedUnion" ->
            v.t = "object"
                /\ \E i \in 1..Len(def.options) :
                    /\ Accepts(def.options[i].shape[1], Field(v, def.discriminator))
                    /\ Accepts(def.options[i], v)
      [] def.typeName = "ZodOptional" -> v.t = "undefined" \/ Accepts(def.innerType, v)
      [] def.typeName = "ZodNullable" -> v.t = "null" \/ Accepts(def.innerType, v)
      [] def.typeName = "ZodDefault" ->
            Accepts(def.innerType, IF v.t = "undefined" THEN def.defaultValue ELSE v)
      [] def.typeName = "ZodRecord" ->
            v.t = "object" /\ \A i \in 1..Len(v.vals) : Accepts(def.valueType, v.vals[i])
      [] def.typeName = "ZodTuple" ->
            v.t = "array" /\ Len(v.items) = Len(def.items)
                /\ \A i \in 1..Len(def.items) : Accepts(def.items[i], v.items[i])
      \* a synchronous parse accepts only a Promise, and no value here is one
      [] def.typeName = "ZodPromise" -> FALSE
      [] def.typeName = "ZodEffects" -> Accepts(def.schema, v)
      [] OTHER -> FALSE

(***************************************************************************)
(* Override tables and the node-type entry points: generateMockOutput      *)
(* (CLI) and getMockOutput over MOCK_OUTPUTS (web).                        *)
(***************************************************************************)

\* Bound on the wall clock.
MaxClock == 2

\* new Date().toISOString() at clock value `now`
IsoString(now) == [t |-> "string", iso |-> now]

\* customMocks: the object literal generateMockOutput builds on every call.
\* (map, filter, http_request, search_contacts, social_keyword_generator and
\* draft_emails are further constant literals.)
CustomMocks(now) ==
    Obj(<<"conditional", "end", "delay", "reddit_monitor", "twitter_monitor">>,
        <<Obj(<<"conditionMet", "selectedBranch">>, <<Bool(TRUE), Str("true")>>),
          Obj(<<"terminated", "reason">>,
              <<Bool(TRUE), Str("Workflow completed successfully")>>),
          Obj(<<"delayed", "delayMs">>, <<Bool(TRUE), Num(1000)>>),
          Obj(<<"posts">>,
              <<Arr(<<Obj(<<"id", "title", "author", "subreddit", "score", "url", "createdAt">>,
                          <<Str("mock_post_1"), Str("Mock Reddit Post"), Str("mock_user"),
                            Str("technology"), Num(150),
                            Str("https://reddit.com/r/technology/mock"),
                            IsoString(now)>>)>>)>>),
          Obj(<<"posts">>,
              <<Arr(<<Obj(<<"id", "text", "author", "likes", "retweets", "createdAt">>,
                          <<Str("mock_tweet_1"), Str("Mock tweet content"), Str("mockuser"),
                            Num(50), Num(10), IsoString(now)>>)>>)>>)>>)

\* MOCK_OUTPUTS: the module-level object literal of lib/utils.ts, evaluated
\* once when the module is loaded.  (map, filter, search_contacts,
\* http_request, social_ai_analyze and ai_summarize are further constant
\* literals.)
MockOutputs(loadedAt) ==
    Obj(<<"conditional", "end", "delay", "reddit_monitor", "ai_generate">>,
        <<Obj(<<"conditionMet", "selectedBranch">>, <<Bool(TRUE), Str("true")>>),
          Obj(<<"terminated", "reason">>, <<Bool(TRUE), Str("Workflow completed")>>),
          Obj(<<"waited", "actualDurationMs">>, <<Bool(TRUE), Num(1000)>>),
          Obj(<<"posts">>,
              <<Arr(<<Obj(<<"id", "title", "author", "subreddit", "score", "url", "createdAt">>,
                          <<Str("mock_post"), Str("Looking for SaaS recommendations"),
                            Str("tech_enthusiast"), Str("technology"), Num(156),
                            Str("https://reddit.com/r/technology/comments/abc123"),
                            IsoString(loadedAt)>>)>>)>>),
          Obj(<<"generatedContent", "tokensUsed", "model">>,
              <<Str("This is AI-generated content based on your prompt."), Num(150),
                Str("gpt-4")>>)>>)

\* The output schemas the entry points are called with.
OutputSchemas == SchemasUpTo(1) \cup {ZDate}

\* The node types the entry points are called with: in both tables, in one
\* of them, in neither, and in neither but a member every object inherits.
MockNodeTypes ==
    {"conditional", "end", "delay", "reddit_monitor", "twitter_monitor", "ai_generate",
     "sora_video", "constructor"}

\* generateMockOutput(nodeType, outputSchema) of the CLI, called at `now`.
GenerateMockOutputMutant(nodeType, outputSchema, now) ==
    LET entry == GetProp(CustomMocks(0), nodeType).value IN
    IF Truthy(entry) THEN entry ELSE GenerateMockFromSchema(outputSchema)

GenerateMockOutput(nodeType, outputSchema, now) ==
    LET entry == GetProp(CustomMocks(now), nodeType).value IN
    IF Truthy(entry) THEN entry ELSE GenerateMockFromSchema(outputSchema)

\* getMockOutput(nodeType, outputSchema) of the web, the module loaded at
\* `loadedAt`.
GetMockOutput(nodeType, outputSchema, loadedAt) ==
    LET entry == GetProp(MockOutputs(loadedAt), nodeType).value IN
    IF Truthy(entry) THEN entry ELSE WebGenerateMockFromSchema(outputSchema)

NoMockCall ==
    [fn |-> "none", impl |-> "none", nodeType |-> "", schema |-> ZNull, at |-> 0,
     value |-> Undefined]

MockCall(fn, impl, nodeType, schema, at) ==
    [fn |-> fn, impl |-> impl, nodeType |-> nodeType, schema |-> schema, at |-> at,
     value |-> CASE fn = "generateMockFromSchema" /\ impl = "cli" ->
                        GenerateMockFromSchema(schema)
                 [] fn = "generateMockFromSchema" /\ impl = "web" ->
                        WebGenerateMockFromSchema(schema)
                 [] fn = "generateMockOutput" /\ impl = "cli" ->
                        GenerateMockOutput(nodeType, schema, at)
                 [] fn = "generateMockOutput" /\ impl = "web" ->
                        GetMockOutput(nodeType, schema, mkWebLoad)]

MockInit ==
    /\ mkClock = 0
    /\ mkWebLoad = 0
    /\ mkPrev = NoMockCall
    /\ mkLast = NoMockCall

\* Time passes.
MockTick ==
    /\ mkClock < MaxClock
    /\ mkClock' = mkClock + 1
    /\ UNCHANGED <<mkWebLoad, mkPrev, mkLast>>
    /\ UNCHANGED notMockVars

CliGenerateMockFromSchema ==
    /\ mkLast = NoMockCall
    /\ \E sch \in Schemas :
        mkLast' = MockCall("generateMockFromSchema", "cli", "", sch, mkClock)
    /\ mkPrev' = NoMockCall
    /\ UNCHANGED <<mkClock, mkWebLoad>>
    /\ UNCHANGED notMockVars

WebGenerateMockFromSchemaCall ==
    /\ mkLast = NoMockCall
    /\ \E sch \in Schemas :
        mkLast' = MockCall("generateMockFromSchema", "web", "", sch, mkClock)
    /\ mkPrev' = NoMockCall
    /\ UNCHANGED <<mkClock, mkWebLoad>>
    /\ UNCHANGED notMockVars

CliGenerateMockOutput ==
    /\ mkLast = NoMockCall
    /\ \E nt \in MockNodeTypes, sch \in OutputSchemas :
        mkLast' = MockCall("generateMockOutput", "cli", nt, sch, mkClock)
    /\ mkPrev' = NoMockCall
    /\ UNCHANGED <<mkClock, mkWebLoad>>
    /\ UNCHANGED notMockVars

WebGetMockOutput ==
    /\ mkLast = NoMockCall
    /\ \E nt \in MockNodeTypes, sch \in OutputSchemas :
        mkLast' = MockCall("generateMockOutput", "web", nt, sch, mkClock)
    /\ mkPrev' = NoMockCall
    /\ UNCHANGED <<mkClock, mkWebLoad>>
    /\ UNCHANGED notMockVars

\* The same function is called again with the same node type and schema.
MockCallAgain ==
    /\ mkLast # NoMockCall
    /\ mkPrev = NoMockCall
    /\ mkPrev' = mkLast
    /\ mkLast' = MockCall(mkLast.fn, mkLast.impl, mkLast.nodeType, mkLast.schema, mkClock)
    /\ UNCHANGED <<mkClock, mkWebLoad>>
    /\ UNCHANGED notMockVars

\* The caller has consumed the returned values.
MockConsumed ==
    /\ mkLast # NoMockCall
    /\ mkLast' = NoMockCall
    /\ mkPrev' = NoMockCall
    /\ UNCHANGED <<mkClock, mkWebLoad>>
    /\ UNCHANGED notMockVars

NextMock ==
    \/ MockTick
    \/ MockConsumed
    \/ CliGenerateMockFromSchema
    \/ WebGenerateMockFromSchemaCall
    \/ CliGenerateMockOutput
    \/ WebGetMockOutput
    \/ MockCallAgain

(***************************************************************************)
(* Claims about mock synthesis.                                            *)
(***************************************************************************)

\* C9: for every schema built from the supported variants, the value
\* generateMockFromSchema returns is accepted by that same schema.
Cex_C9_MockRevalidates ==
    (mkLast.fn = "generateMockFromSchema" /\ mkLast.schema \in SupportedSchemas) =>
        Accepts(mkLast.schema, mkLast.value)

\* Where the round trip does hold: the CLI synthesizer on schemas without a
\* Promise and without a native enum that has numeric members.
RECURSIVE Mentions(_, _, _)
Mentions(def, names, defs) ==
    \/ def \in defs
    \/ def.typeName \in names
    \/ CASE def.typeName \in {"ZodArray", "ZodPromise"} -> Mentions(def.type, names, defs)
         [] def.typeName \in {"ZodOptional", "ZodNullable", "ZodDefault"} ->
                Mentions(def.innerType, names, defs)
         [] def.typeName = "ZodRecord" -> Mentions(def.valueType, names, defs)
         [] def.typeName = "ZodEffects" -> Mentions(def.schema, names, defs)
         [] def.typeName = "ZodObject" ->
                \E i \in 1..Len(def.shape) : Mentions(def.shape[i], names, defs)
         [] def.typeName \in {"ZodUnion", "ZodDiscriminatedUnion"} ->
                \E i \in 1..Len(def.options) : Mentions(def.options[i], names, defs)
         [] def.typeName = "ZodTuple" ->
                \E i \in 1..Len(def.items) : Mentions(def.items[i], names, defs)
         [] OTHER -> FALSE

Aux_C9_CliRoundTrip ==
    (/\ mkLast.fn = "generateMockFromSchema"
     /\ mkLast.impl = "cli"
     /\ mkLast.schema \in SupportedSchemas
     /\ ~Mentions(mkLast.schema, {"ZodPromise"}, {ZNativeEnum(NumericEnumObj)})) =>
        Accepts(mkLast.schema, mkLast.value)

SameMockCall(a, b) ==
    /\ a.fn = b.fn
    /\ a.impl = b.impl
    /\ a.nodeType = b.nodeType
    /\ a.schema = b.schema

\* C10: two calls with the same node type and the same schema, made at any
\* two times, return structurally equal values.
Cex_C10_MockDeterministic ==
    (mkPrev # NoMockCall /\ SameMockCall(mkPrev, mkLast)) => mkPrev.value = mkLast.value

\* What is deterministic: the schema traversal of both synthesizers, the web
\* entry point, and the CLI entry point for every node type whose table
\* entry does not read the clock.
Aux_C10_DeterministicPart ==
    (/\ mkPrev # NoMockCall
     /\ SameMockCall(mkPrev, mkLast)
     /\ ~(mkLast.fn = "generateMockOutput" /\ mkLast.impl = "cli"
            /\ mkLast.nodeType \in {"reddit_monitor", "twitter_monitor"})) =>
        mkPrev.value = mkLast.value

(***************************************************************************)
(* Node executors: one call of a node's `executor(input, context)`.        *)
(***************************************************************************)

\* Bound on the units one execution loops over (contacts, batches).
MaxUnits == 2

\* Bound on the polling rounds that fit in sora_video's maxWaitMs.
MaxWaitRounds == 2

ExecutorNodes ==
    {"search_contacts", "sora_video", "twitter_monitor", "linkedin_monitor",
     "social_keyword_generator", "draft_emails", "social_ai_analyze"}

\* The credential each executor reads: context.credentials?.<service>?.<key>
RequiredCredential ==
    [n \in ExecutorNodes |->
        CASE n = "search_contacts" -> [service |-> "apollo", key |-> "apiKey"]
          [] n = "sora_video" -> [service |-> "openai", key |-> "apiKey"]
          [] n = "twitter_monitor" -> [service |-> "twitter", key |-> "twitterApiIoKey"]
          [] n = "linkedin_monitor" -> [service |-> "forumScout", key |-> "apiKey"]
          [] OTHER -> [service |-> "anthropic", key |-> "apiKey"]]

\* The message of each executor's missing-credential branch.
NotConfiguredError ==
    [n \in ExecutorNodes |->
        CASE n = "search_contacts" ->
                "Apollo API key not configured. Please provide context.credentials.apollo.apiKey."
          [] n = "sora_video" ->
                "OpenAI API key not configured. Please provide context.credentials.openai.apiKey."
          [] n = "twitter_monitor" ->
                "Twitter API key not configured. Please provide context.credentials.twitter.twitterApiIoKey."
          [] n = "linkedin_monitor" ->
                "ForumScout API key not configured. Please provide context.credentials.forumScout.apiKey."
          [] OTHER ->
                "Anthropic API key not configured. Please provide context.credentials.anthropic.apiKey."]

\* The fallback message of each executor's outer catch.
FallbackError ==
    [n \in ExecutorNodes |->
        CASE n = "search_contacts" -> "Failed to search contacts"
          [] n = "sora_video" -> "Failed to generate video"
          [] n = "twitter_monitor" -> "Failed to monitor Twitter"
          [] n = "linkedin_monitor" -> "Failed to monitor LinkedIn"
          [] n = "social_keyword_generator" -> "Failed to generate keywords"
          [] n = "draft_emails" -> "Failed to draft emails"
          [] OTHER -> "Failed to analyze posts"]

\* context.credentials as the hosts can bind it, for the credential (service, key).
CredentialMappings(req) ==
    {Undefined,
     EmptyObj,
     Obj(<<"other">>, <<Obj(<<"apiKey">>, <<Str("k")>>)>>),
     Obj(<<req.service>>, <<EmptyObj>>),
     Obj(<<req.service>>, <<Obj(<<"token">>, <<Str("k")>>)>>),
     Obj(<<req.service>>, <<Obj(<<req.key>>, <<Str("")>>)>>),
     Obj(<<req.service>>, <<Obj(<<req.key>>, <<Str("k")>>)>>)}

\* context.variables as a caller can bind it.
VariableBindings ==
    {Undefined, EmptyObj, Obj(<<"senderName">>, <<Str("")>>), Obj(<<"senderName">>, <<Str("Ada")>>)}

\* a?.k : undefined when a is null or undefined, a[k] otherwise.
OptionalChain(a, k) == IF a \in {Undefined, Null} THEN Undefined ELSE GetProp(a, k).value

\* The apiKey constant of an executor: context.credentials?.<service>?.<key>
ReadApiKey(context, node) ==
    OptionalChain(OptionalChain(context.credentials, RequiredCredential[node].service),
                  RequiredCredential[node].key)

\* String.prototype.trim on the keywords the model uses.
Trim(k) == IF k = " " THEN "" ELSE k

\* input.keywords, an array of strings that the schema lets be empty or blank.
KeywordLists == {<<>>, <<" ">>, <<"ts">>, <<" ", "ts">>}

\* Array.prototype.filter(Boolean) after map(k => k.trim())
RECURSIVE TrimmedKeywords(_)
TrimmedKeywords(ks) ==
    IF ks = <<>> THEN <<>>
    ELSE IF Trim(Head(ks)) = "" THEN TrimmedKeywords(Tail(ks))
    ELSE <<Trim(Head(ks))>> \o TrimmedKeywords(Tail(ks))

\* The units of one execution: TRUE for a unit the loop body processes
\* (a contact with an id, a contact with an email, a batch of posts).
RECURSIVE UnitsUpTo(_)
UnitsUpTo(n) ==
    IF n = 0 THEN {<<>>}
    ELSE UnitsUpTo(n - 1) \cup {Append(u, b) : u \in {v \in UnitsUpTo(n - 1) : Len(v) = n - 1}, b \in BOOLEAN}

\* The validated inputs of a node, by the parts the executor branches on.
\* The schema defaults of maxResults (twitter_monitor, linkedin_monitor) and
\* of limit (search_contacts), and the page size search_contacts caps at.
DefaultMaxResults == 50
DefaultLimit == 10
MaxPerPage == 100

\* The values z.number().optional().default(d) parses to: any number the
\* caller gave, d when the caller gave none.
RequestedCounts(d) == {-1, 0, 1, d}

\* `n || d` on numbers.
OrDefault(n, d) == IF n = 0 THEN d ELSE n

\* The length of array.slice(0, end) for an array of `len` elements.
SliceLen(len, end) ==
    IF end < 0 THEN (IF len + end > 0 THEN len + end ELSE 0)
    ELSE IF end < len THEN end ELSE len

ExecInputs(node) ==
    CASE node \in {"twitter_monitor", "linkedin_monitor"} ->
            {[keywords |-> ks, units |-> <<>>, maxResults |-> n, limit |-> 0] :
                ks \in KeywordLists, n \in RequestedCounts(DefaultMaxResults)}
      [] node = "search_contacts" ->
            {[keywords |-> <<>>, units |-> <<>>, maxResults |-> 0, limit |-> n] :
                n \in RequestedCounts(DefaultLimit)}
      [] node = "draft_emails" ->
            {[keywords |-> <<>>, units |-> u, maxResults |-> 0, limit |-> 0] :
                u \in UnitsUpTo(MaxUnits)}
      [] node = "social_ai_analyze" ->
            {[keywords |-> <<>>, units |-> u, maxResults |-> 0, limit |-> 0] :
                u \in {v \in UnitsUpTo(MaxUnits) : \A i \in 1..Len(v) : v[i]}}
      [] OTHER -> {[keywords |-> <<>>, units |-> <<>>, maxResults |-> 0, limit |-> 0]}

\* A Result.
Success(output) == [success |-> TRUE, output |-> output]
Failure(message) == [success |-> FALSE, error |-> Str(message)]
FailureOf(errorValue) == [success |-> FALSE, error |-> errorValue]
NoResult == [success |-> FALSE]

\* What a throw statement raises: an Error with a message, or any other value.
NewError(message) == [isError |-> TRUE, message |-> Str(message)]
NonError == [isError |-> FALSE, message |-> Undefined]

\* How an async function settles.
Fulfil(value) == [settled |-> "fulfilled", value |-> value]
Reject(reason) == [settled |-> "rejected", value |-> NoResult]

\* What a call of a downstream helper (fetchWithRetry, the response.ok test,
\* response.json(), the reads of the body) can do other than return data:
\* fetchWithRetry raises an Error or some other value, the response is not
\* ok, the body is not JSON, the body is JSON of an unexpected shape.
HelperFailures == {"fetchThrew", "threwNonError", "nonOk", "notJson", "malformed"}

\* What the text of an AI response can be when the call itself succeeded.
TextOutcomes == {"noMatch", "badJson", "wrongShape", "good"}

\* What the helper raises for each failure.
HelperThrown(outcome) ==
    CASE outcome = "fetchThrew" -> NewError("fetch failed")
      [] outcome = "threwNonError" -> NonError
      [] outcome = "nonOk" -> NewError("API error: 500 - ")
      [] outcome = "notJson" -> NewError("Unexpected token < in JSON")
      [] OTHER -> NewError("Cannot read properties of undefined")

\* The outer `catch (error)` of an executor.
CatchMutant(thrown, node) == Reject(thrown)

Catch(thrown, node) ==
    Fulfil(FailureOf(IF thrown.isError THEN thrown.message ELSE Str(FallbackError[node])))

Output(kept, total) == [kept |-> kept, total |-> total]

NoInput == [keywords |-> <<>>, units |-> <<>>, maxResults |-> 0, limit |-> 0]
NoContext == [credentials |-> Undefined, variables |-> Undefined]

ExecInit ==
    /\ exNode = "none"
    /\ exPc = "idle"
    /\ exInput = NoInput
    /\ exContext = NoContext
    /\ exUnits = <<>>
    /\ exIndex = 1
    /\ exKept = 0
    /\ exPushed = <<>>
    /\ exFetches = 0
    /\ exElapsed = 0
    /\ exLast = "none"
    /\ exLog = <<>>
    /\ exSettled = "pending"
    /\ exResult = NoResult

\* The executor's promise settles with completion c.
Settle(c) ==
    /\ exPc' = "done"
    /\ exSettled' = c.settled
    /\ exResult' = c.value

\* A caller invokes node.executor(input, context).
ExecInvoke ==
    /\ exPc = "idle"
    /\ \E node \in ExecutorNodes :
         /\ exNode' = node
         /\ \E input \in ExecInputs(node) : exInput' = input
         /\ \E c \in CredentialMappings(RequiredCredential[node]), v \in VariableBindings :
              exContext' = [credentials |-> c, variables |-> v]
    /\ exPc' = "entered"
    /\ UNCHANGED <<exUnits, exIndex, exKept, exPushed, exFetches, exElapsed, exLast, exLog, exSettled, exResult>>
    /\ UNCHANGED notExecVars

\* The `if (!apiKey)` branch.
NotConfigured == Settle(Fulfil(Failure(NotConfiguredError[exNode])))

\* An executor whose first statements are the credential check alone.
EnterWithKey(node, nextPc) ==
    /\ exNode = node
    /\ exPc = "entered"
    /\ IF ~Truthy(ReadApiKey(exContext, node))
       THEN NotConfigured
       ELSE exPc' = nextPc /\ UNCHANGED <<exSettled, exResult>>
    /\ UNCHANGED <<exNode, exInput, exContext, exUnits, exIndex, exKept, exPushed, exFetches, exElapsed, exLast, exLog>>
    /\ UNCHANGED notExecVars

\* One entry of the trace: an awaited downstream call with what it did, or an
\* awaited sleep(ms), each with the loop position it happened at.
CalledWith(op, outcome, reply) ==
    [op |-> op, outcome |-> outcome, unit |-> exIndex, ms |-> 0, reply |-> reply]
Called(op, outcome) == CalledWith(op, outcome, Undefined)
Slept(ms) ==
    [op |-> "sleep", outcome |-> "elapsed", unit |-> exIndex, ms |-> ms, reply |-> Undefined]

\* One downstream call that failed inside the outer try, outside any inner one.
CallFails(op, o) ==
    /\ exFetches' = exFetches + 1
    /\ exLast' = o
    /\ exLog' = Append(exLog, Called(op, o))
    /\ Settle(Catch(HelperThrown(o), exNode))

(* search_contacts *)
SearchContactsEnter == EnterWithKey("search_contacts", "search")

SearchApolloContacts ==
    /\ exNode = "search_contacts"
    /\ exPc = "search"
    /\ \/ \E o \in HelperFailures : CallFails("searchApolloContacts", o) /\ UNCHANGED <<exUnits, exIndex>>
       \/ \E results \in UnitsUpTo(MaxUnits) :
            /\ exFetches' = exFetches + 1
            /\ exLast' = "good"
            /\ exLog' = Append(exLog, Called("searchApolloContacts", "good"))
            /\ exUnits' = results
            /\ exIndex' = 1
            /\ IF Len(results) = 0
               THEN Settle(Fulfil(Success(Output(0, 0))))
               ELSE exPc' = "enrich" /\ UNCHANGED <<exSettled, exResult>>
    /\ UNCHANGED <<exNode, exInput, exContext, exKept, exPushed, exElapsed>>
    /\ UNCHANGED notExecVars

\* What enrichApolloContact can return: `data.person || null`, the person
\* with no email, with an empty one, or with one.
EnrichReplies == {"noPerson", "noEmail", "emptyEmail", "good"}

EnrichedPerson(reply) ==
    CASE reply = "noPerson" -> Null
      [] reply = "noEmail" -> Obj(<<"id">>, <<Str("p1")>>)
      [] reply = "emptyEmail" -> Obj(<<"id", "email">>, <<Str("p1"), Str("")>>)
      [] OTHER -> Obj(<<"id", "email">>, <<Str("p1"), Str("ada@example.com")>>)

\* The page size the search request asks for: the executor passes
\* Math.min(input.limit || 10, 100), the helper sends
\* Math.min(params.limit || 100, 100).
PerPage(input) ==
    LET Min(a, b) == IF a < b THEN a ELSE b
        passed == Min(OrDefault(input.limit, DefaultLimit), MaxPerPage)
    IN Min(OrDefault(passed, MaxPerPage), MaxPerPage)

\* One iteration of `for (const contact of results)`.
EnrichApolloContact ==
    /\ exNode = "search_contacts"
    /\ exPc = "enrich"
    /\ exIndex <= Len(exUnits)
    /\ exIndex' = exIndex + 1
    /\ IF ~exUnits[exIndex]
       THEN UNCHANGED <<exFetches, exLast, exLog, exKept, exPushed>>
       ELSE \E o \in HelperFailures \cup EnrichReplies :
              /\ exFetches' = exFetches + 1
              /\ exLast' = o
              /\ exLog' = IF o \in HelperFailures
                           THEN Append(exLog, Called("enrichApolloContact", o))
                           ELSE exLog \o <<Called("enrichApolloContact", o), Slept(200)>>
              /\ IF o \in EnrichReplies /\ Truthy(OptionalChain(EnrichedPerson(o), "email"))
                 THEN /\ exKept' = exKept + 1
                      /\ exPushed' = Append(exPushed, OptionalChain(EnrichedPerson(o), "email"))
                 ELSE UNCHANGED <<exKept, exPushed>>
    /\ UNCHANGED <<exNode, exPc, exInput, exContext, exUnits, exElapsed, exSettled, exResult>>
    /\ UNCHANGED notExecVars

\* The return that follows a loop over the units.
ReturnAfterLoop(node, pc) ==
    /\ exNode = node
    /\ exPc = pc
    /\ exIndex > Len(exUnits)
    /\ Settle(Fulfil(Success(Output(exKept, Len(exUnits)))))
    /\ UNCHANGED <<exNode, exInput, exContext, exUnits, exIndex, exKept, exPushed, exFetches, exElapsed, exLast, exLog>>
    /\ UNCHANGED notExecVars

SearchContactsReturn == ReturnAfterLoop("search_contacts", "enrich")

(* sora_video *)
SoraVideoEnter == EnterWithKey("sora_video", "create")

CreateSoraVideo ==
    /\ exNode = "sora_video"
    /\ exPc = "create"
    /\ \/ \E o \in HelperFailures : CallFails("createSoraVideo", o)
       \/ /\ exFetches' = exFetches + 1
          /\ exLast' = "good"
          /\ exLog' = Append(exLog, Called("createSoraVideo", "good"))
          /\ exPc' = "poll"
          /\ UNCHANGED <<exSettled, exResult>>
    /\ UNCHANGED <<exNode, exInput, exContext, exUnits, exIndex, exKept, exPushed, exElapsed>>
    /\ UNCHANGED notExecVars

\* What GET /videos/{id} can answer: the generation is under way, has
\* failed with or without a message, or is completed with or without an
\* output URL.
StatusReplies ==
    {Obj(<<"status">>, <<Str("in_progress")>>),
     Obj(<<"status">>, <<Str("failed")>>),
     Obj(<<"status", "error">>, <<Str("failed"), Obj(<<"message">>, <<Str("moderation")>>)>>),
     Obj(<<"status">>, <<Str("completed")>>),
     Obj(<<"status", "output">>, <<Str("completed"), EmptyObj>>),
     Obj(<<"status", "output">>, <<Str("completed"), Obj(<<"url">>, <<Str("")>>)>>),
     Obj(<<"status", "output">>, <<Str("completed"), Obj(<<"url">>, <<Str("https://v/1.mp4")>>)>>),
     Obj(<<"status", "output">>, <<Str("completed"), Obj(<<"url">>, <<Str("https://v/2.mp4")>>)>>)}

\* How waitForVideoCompletion and the executor take a status reply.
PollOutcome(status) ==
    LET s == OwnValue(status, "status").s IN
    IF s = "completed"
    THEN (IF Truthy(OptionalChain(OptionalChain(status, "output"), "url"))
          THEN "completed" ELSE "completedNoUrl")
    ELSE IF s = "failed" THEN "failed"
    ELSE "pending"

\* `if (!completedVideo.output?.url)` is not taken.
SoraReturnsVideoMutant(url) == TRUE

SoraReturnsVideo(url) == Truthy(url)

\* The output of sora_video, as far as its video.url.
VideoOutput(url) == [video |-> [url |-> url]]

\* The negation of the loop condition `Date.now() - startTime < maxWaitMs`,
\* in units of pollIntervalMs.
WaitExpiredMutant(elapsed) == FALSE

WaitExpired(elapsed) == elapsed >= MaxWaitRounds

\* One round of waitForVideoCompletion's loop: a status request, then
\* return, throw, or sleep(pollIntervalMs).
PollSoraVideo ==
    /\ exNode = "sora_video"
    /\ exPc = "poll"
    /\ ~WaitExpired(exElapsed)
    /\ \/ \E o \in HelperFailures : CallFails("getSoraVideoStatus", o) /\ UNCHANGED exElapsed
       \/ \E status \in StatusReplies :
            LET o == PollOutcome(status)
                url == OptionalChain(OptionalChain(status, "output"), "url")
                message == OptionalChain(OptionalChain(status, "error"), "message")
            IN /\ exFetches' = exFetches + 1
               /\ exLast' = o
               /\ IF o = "pending"
                  THEN /\ exLog' = exLog \o <<CalledWith("getSoraVideoStatus", o, status), Slept(5000)>>
                       /\ \E d \in 1..(MaxWaitRounds - exElapsed) : exElapsed' = exElapsed + d
                       /\ UNCHANGED <<exPc, exSettled, exResult>>
                  ELSE /\ exLog' = Append(exLog, CalledWith("getSoraVideoStatus", o, status))
                       /\ UNCHANGED exElapsed
                       /\ IF o = "failed"
                          THEN Settle(Catch(NewError(IF Truthy(message) THEN message.s
                                                     ELSE "Video generation failed"), exNode))
                          ELSE IF ~SoraReturnsVideo(url)
                          THEN Settle(Fulfil(Failure(
                                   "Video generation completed but no URL returned")))
                          ELSE Settle(Fulfil(Success(VideoOutput(url))))
    /\ UNCHANGED <<exNode, exInput, exContext, exUnits, exIndex, exKept, exPushed>>
    /\ UNCHANGED notExecVars

\* The loop condition fails: throw new Error('Video generation timed out').
SoraVideoTimedOut ==
    /\ exNode = "sora_video"
    /\ exPc = "poll"
    /\ WaitExpired(exElapsed)
    /\ Settle(Catch(NewError("Video generation timed out"), exNode))
    /\ UNCHANGED <<exNode, exInput, exContext, exUnits, exIndex, exKept, exPushed, exFetches, exElapsed, exLast, exLog>>
    /\ UNCHANGED notExecVars

(* twitter_monitor and linkedin_monitor *)
\* The keyword check comes first, the credential check second.
EnterWithKeywords(node, usable, message) ==
    /\ exNode = node
    /\ exPc = "entered"
    /\ IF Len(usable) = 0
       THEN Settle(Fulfil(Failure(message)))
       ELSE IF ~Truthy(ReadApiKey(exContext, node))
       THEN NotConfigured
       ELSE exPc' = "search" /\ UNCHANGED <<exSettled, exResult>>
    /\ UNCHANGED <<exNode, exInput, exContext, exUnits, exIndex, exKept, exPushed, exFetches, exElapsed, exLast, exLog>>
    /\ UNCHANGED notExecVars

TwitterMonitorEnter ==
    EnterWithKeywords("twitter_monitor", exInput.keywords, "No keywords provided for Twitter search")

LinkedInMonitorEnter ==
    EnterWithKeywords("linkedin_monitor", TrimmedKeywords(exInput.keywords), "No valid keywords provided")

\* The one search call, then `.slice(0, input.maxResults || 50).map(...)`
\* and `totalFound: posts.length`.
SearchPosts(node) ==
    /\ exNode = node
    /\ exPc = "search"
    /\ \/ \E o \in HelperFailures : CallFails("search", o)
       \/ \E found \in 0..MaxUnits :
            /\ exFetches' = exFetches + 1
            /\ exLast' = IF found = 0 THEN "empty" ELSE "good"
            /\ exLog' = Append(exLog, Called("search", IF found = 0 THEN "empty" ELSE "good"))
            /\ LET posts == SliceLen(found, OrDefault(exInput.maxResults, DefaultMaxResults))
               IN Settle(Fulfil(Success(Output(posts, posts))))
    /\ UNCHANGED <<exNode, exInput, exContext, exUnits, exIndex, exKept, exPushed, exElapsed>>
    /\ UNCHANGED notExecVars

SearchTwitter == SearchPosts("twitter_monitor")
SearchLinkedIn == SearchPosts("linkedin_monitor")

(* social_keyword_generator *)
KeywordGeneratorEnter == EnterWithKey("social_keyword_generator", "generate")

GenerateKeywords ==
    /\ exNode = "social_keyword_generator"
    /\ exPc = "generate"
    /\ \/ \E o \in HelperFailures : CallFails("generateText", o)
       \/ \E o \in TextOutcomes :
            /\ exFetches' = exFetches + 1
            /\ exLast' = o
            /\ exLog' = Append(exLog, Called("generateText", o))
            /\ Settle(CASE o = "noMatch" -> Fulfil(Failure("Could not parse keyword response"))
                        [] o = "badJson" -> Fulfil(Failure("Failed to parse keyword JSON response"))
                        [] o = "wrongShape" -> Catch(HelperThrown("malformed"), exNode)
                        [] OTHER -> Fulfil(Success(Output(1, 1))))
    /\ UNCHANGED <<exNode, exInput, exContext, exUnits, exIndex, exKept, exPushed, exElapsed>>
    /\ UNCHANGED notExecVars

(* draft_emails *)
\* The credential check, then the read of context.variables['senderName'].
DraftEmailsEnter ==
    /\ exNode = "draft_emails"
    /\ exPc = "entered"
    /\ IF ~Truthy(ReadApiKey(exContext, exNode))
       THEN NotConfigured /\ UNCHANGED <<exUnits, exIndex>>
       ELSE LET senderName == GetProp(exContext.variables, "senderName") IN
            IF senderName.threw
            THEN Settle(Catch(HelperThrown("malformed"), exNode)) /\ UNCHANGED <<exUnits, exIndex>>
            ELSE IF ~Truthy(senderName.value)
            THEN /\ Settle(Fulfil(Failure(
                       "Please set senderName in context.variables before creating email campaigns.")))
                 /\ UNCHANGED <<exUnits, exIndex>>
            ELSE /\ exPc' = "body"
                 /\ exUnits' = exInput.units
                 /\ exIndex' = 1
                 /\ UNCHANGED <<exSettled, exResult>>
    /\ UNCHANGED <<exNode, exInput, exContext, exKept, exPushed, exFetches, exElapsed, exLast, exLog>>
    /\ UNCHANGED notExecVars

\* The body generation of one contact; a failure is swallowed by the inner catch.
DraftBody ==
    /\ exNode = "draft_emails"
    /\ exPc = "body"
    /\ exIndex <= Len(exUnits)
    /\ IF ~exUnits[exIndex]
       THEN exIndex' = exIndex + 1 /\ UNCHANGED <<exPc, exFetches, exLast, exLog>>
       ELSE \E o \in HelperFailures \cup {"good"} :
              /\ exFetches' = exFetches + 1
              /\ exLast' = o
              /\ exLog' = Append(exLog, Called("generateBody", o))
              /\ IF o = "good"
                 THEN exPc' = "subject" /\ UNCHANGED exIndex
                 ELSE exIndex' = exIndex + 1 /\ UNCHANGED exPc
    /\ UNCHANGED <<exNode, exInput, exContext, exUnits, exKept, exPushed, exElapsed, exSettled, exResult>>
    /\ UNCHANGED notExecVars

\* The subject generation of the same contact, then the push and the sleep.
DraftSubject ==
    /\ exNode = "draft_emails"
    /\ exPc = "subject"
    /\ \E o \in HelperFailures \cup {"good"} :
         /\ exFetches' = exFetches + 1
         /\ exLast' = o
         /\ exLog' = IF o = "good"
                      THEN exLog \o <<Called("generateSubject", o), Slept(200)>>
                      ELSE Append(exLog, Called("generateSubject", o))
         /\ exKept' = IF o = "good" THEN exKept + 1 ELSE exKept
         /\ exPushed' = IF o = "good" THEN Append(exPushed, exIndex) ELSE exPushed
    /\ exIndex' = exIndex + 1
    /\ exPc' = "body"
    /\ UNCHANGED <<exNode, exInput, exContext, exUnits, exElapsed, exSettled, exResult>>
    /\ UNCHANGED notExecVars

DraftEmailsReturn == ReturnAfterLoop("draft_emails", "body")

(* social_ai_analyze *)
SocialAiAnalyzeEnter ==
    /\ exNode = "social_ai_analyze"
    /\ exPc = "entered"
    /\ IF ~Truthy(ReadApiKey(exContext, exNode))
       THEN NotConfigured /\ UNCHANGED <<exUnits, exIndex>>
       ELSE IF Len(exInput.units) = 0
       THEN Settle(Fulfil(Success(Output(0, 0)))) /\ UNCHANGED <<exUnits, exIndex>>
       ELSE /\ exPc' = "analyze"
            /\ exUnits' = exInput.units
            /\ exIndex' = 1
            /\ UNCHANGED <<exSettled, exResult>>
    /\ UNCHANGED <<exNode, exInput, exContext, exKept, exPushed, exFetches, exElapsed, exLast, exLog>>
    /\ UNCHANGED notExecVars

\* One batch: generateText is outside the inner try, the parsing inside it.
AnalyzeBatch ==
    /\ exNode = "social_ai_analyze"
    /\ exPc = "analyze"
    /\ exIndex <= Len(exUnits)
    /\ \/ \E o \in HelperFailures : CallFails("generateText", o) /\ UNCHANGED <<exIndex, exKept, exPushed>>
       \/ \E o \in TextOutcomes :
            /\ exFetches' = exFetches + 1
            /\ exLast' = o
            /\ exLog' = Append(exLog, Called("generateText", o))
            /\ exKept' = IF o = "good" THEN exKept + 1 ELSE exKept
            /\ exPushed' = IF o = "good" THEN Append(exPushed, exIndex) ELSE exPushed
            /\ exIndex' = exIndex + 1
            /\ UNCHANGED <<exPc, exSettled, exResult>>
    /\ UNCHANGED <<exNode, exInput, exContext, exUnits, exElapsed>>
    /\ UNCHANGED notExecVars

SocialAiAnalyzeReturn == ReturnAfterLoop("social_ai_analyze", "analyze")

NextExec ==
    \/ ExecInvoke
    \/ SearchContactsEnter
    \/ SearchApolloContacts
    \/ EnrichApolloContact
    \/ SearchContactsReturn
    \/ SoraVideoEnter
    \/ CreateSoraVideo
    \/ PollSoraVideo
    \/ SoraVideoTimedOut
    \/ TwitterMonitorEnter
    \/ SearchTwitter
    \/ LinkedInMonitorEnter
    \/ SearchLinkedIn
    \/ KeywordGeneratorEnter
    \/ GenerateKeywords
    \/ DraftEmailsEnter
    \/ DraftBody
    \/ DraftSubject
    \/ DraftEmailsReturn
    \/ SocialAiAnalyzeEnter
    \/ AnalyzeBatch
    \/ SocialAiAnalyzeReturn

(***************************************************************************)
(* social_ai_analyze, the posts: the batches, the merge of each reply with *)
(* the posts of its batch, the sort and the two filters.                   *)
(***************************************************************************)

MaxPosts == 3
MaxAnalyses == 2

\* MIN_RELEVANCE_SCORE and ANALYSIS_BATCH_SIZE are imported from
\* prompts/analyze-posts.js; the executor depends on them only through
\* `>=` and the batch stride.
MIN_RELEVANCE_SCORE == 30
ANALYSIS_BATCH_SIZE == 2

\* `p.relevanceScore >= 80` of the high-priority filter.
HighPriorityScore == 80

PostIds == {"p1", "p2"}

RECURSIVE SeqsUpTo(_, _)
SeqsUpTo(S, n) ==
    IF n = 0 THEN {<<>>}
    ELSE SeqsUpTo(S, n - 1) \cup
         {Append(q, x) : q \in {r \in SeqsUpTo(S, n - 1) : Len(r) = n - 1}, x \in S}

\* The elements a parsed reply can hold: an analysis of a post, by id.
Analysis(id, score, urgency, complaint) ==
    [id |-> id, relevanceScore |-> score, urgencyLevel |-> urgency, isComplaint |-> complaint]

Analyses ==
    {Analysis("p1", HighPriorityScore, "low", TRUE),
     Analysis("p1", MIN_RELEVANCE_SCORE, "high", FALSE),
     Analysis("p1", MIN_RELEVANCE_SCORE - 1, "high", TRUE),
     Analysis("p2", MIN_RELEVANCE_SCORE, "low", FALSE),
     Analysis("p2", HighPriorityScore + 10, "medium", FALSE),
     Analysis("p9", HighPriorityScore, "high", TRUE)}

\* What one generateText call can do: throw, answer text without a JSON
\* array, answer an array that does not parse, or answer analyses.
AnalysisReplies ==
    {[kind |-> k, analyzed |-> <<>>] : k \in {"threw", "noMatch", "badJson"}}
        \cup {[kind |-> "parsed", analyzed |-> a] : a \in SeqsUpTo(Analyses, MaxAnalyses)}

\* allPosts.slice(i, i + ANALYSIS_BATCH_SIZE), as positions of allPosts.
BatchAt(posts, i) ==
    {j \in 1..Len(posts) : i <= j /\ j < i + ANALYSIS_BATCH_SIZE}

\* batch.find((p) => p.id === id): the first post of the batch with that
\* id, as its position in allPosts, or 0.
FindInBatch(posts, batch, id) ==
    LET hits == {j \in batch : posts[j] = id} IN
    IF hits = {} THEN 0 ELSE CHOOSE j \in hits : \A k \in hits : j <= k

\* `if (originalPost && analysis.relevanceScore >= MIN_RELEVANCE_SCORE)`
MergesAnalysis(found, analysis) ==
    found # 0 /\ analysis.relevanceScore >= MIN_RELEVANCE_SCORE

\* The loop over the analyses of one reply: each one that finds its post
\* and scores enough is pushed, with the post it found.
RECURSIVE MergeReply(_, _, _, _)
MergeReply(posts, batch, analyzed, acc) ==
    IF analyzed = <<>> THEN acc
    ELSE LET a == Head(analyzed)
             found == FindInBatch(posts, batch, a.id)
         IN MergeReply(posts, batch, Tail(analyzed),
                       IF MergesAnalysis(found, a)
                       THEN Append(acc, [post |-> found, id |-> posts[found],
                                         relevanceScore |-> a.relevanceScore,
                                         urgencyLevel |-> a.urgencyLevel,
                                         isComplaint |-> a.isComplaint])
                       ELSE acc)

\* Array.prototype.sort with (a, b) => b.relevanceScore - a.relevanceScore:
\* a stable sort, highest score first.
RECURSIVE InsertByScore(_, _)
InsertByScore(sorted, e) ==
    IF sorted = <<>> THEN <<e>>
    ELSE IF Head(sorted).relevanceScore >= e.relevanceScore
    THEN <<Head(sorted)>> \o InsertByScore(Tail(sorted), e)
    ELSE <<e>> \o sorted

RECURSIVE SortByScore(_)
SortByScore(entries) ==
    IF entries = <<>> THEN <<>>
    ELSE InsertByScore(SortByScore(SubSeq(entries, 1, Len(entries) - 1)), entries[Len(entries)])

IsHighPriority(p) == p.urgencyLevel = "high" \/ p.relevanceScore >= HighPriorityScore
IsComplaint(p) == p.isComplaint

\* The output built after the loop.
AnalysisOutput(entries) ==
    LET sorted == SortByScore(entries)
        highPriorityPosts == SelectSeq(sorted, IsHighPriority)
        complaints == SelectSeq(sorted, IsComplaint)
    IN [analyzedPosts |-> sorted,
        highPriorityPosts |-> highPriorityPosts,
        complaints |-> complaints,
        totalAnalyzed |-> Len(sorted),
        highPriorityCount |-> Len(highPriorityPosts),
        complaintCount |-> Len(complaints)]

AnalyzeInit ==
    /\ anPc = "idle"
    /\ anPosts = <<>>
    /\ anNext = 1
    /\ anAnalyzed = <<>>
    /\ anResult = NoResult

\* The executor is invoked with a configured key: the posts of the input
\* are concatenated; with none, the empty output is returned at once.
AnalyzeInvoke ==
    /\ anPc = "idle"
    /\ \E posts \in SeqsUpTo(PostIds, MaxPosts) :
         /\ anPosts' = posts
         /\ IF posts = <<>>
            THEN anPc' = "done" /\ anResult' = Success(AnalysisOutput(<<>>))
            ELSE anPc' = "batching" /\ UNCHANGED anResult
    /\ UNCHANGED <<anNext, anAnalyzed>>
    /\ UNCHANGED notAnalyzeVars

\* One iteration of the batch loop: the call, the match, the parse, the merge.
AnalyzeOneBatch ==
    /\ anPc = "batching"
    /\ anNext <= Len(anPosts)
    /\ \E reply \in AnalysisReplies :
         IF reply.kind = "threw"
         THEN /\ anPc' = "done"
              /\ anResult' = Failure("Anthropic API error: 500 - ")
              /\ UNCHANGED <<anNext, anAnalyzed>>
         ELSE /\ anAnalyzed' = MergeReply(anPosts, BatchAt(anPosts, anNext), reply.analyzed, anAnalyzed)
              /\ anNext' = anNext + ANALYSIS_BATCH_SIZE
              /\ UNCHANGED <<anPc, anResult>>
    /\ UNCHANGED anPosts
    /\ UNCHANGED notAnalyzeVars

\* After the last batch: sort, filter, count, return.
AnalyzeReturn ==
    /\ anPc = "batching"
    /\ anNext > Len(anPosts)
    /\ anPc' = "done"
    /\ anResult' = Success(AnalysisOutput(anAnalyzed))
    /\ UNCHANGED <<anPosts, anNext, anAnalyzed>>
    /\ UNCHANGED notAnalyzeVars

NextAnalyze ==
    \/ AnalyzeInvoke
    \/ AnalyzeOneBatch
    \/ AnalyzeReturn

\* A social_ai_analyze call that returned its output.
AnalysisReturned == anPc = "done" /\ anResult.success

\* Every entry is an input post whose analysis scored enough, the entries
\* are in descending order of score, and the three counts are the lengths
\* of the three lists.
EntriesSortedAndCounted ==
    LET out == anResult.output
        entries == out.analyzedPosts
    IN /\ \A i \in 1..Len(entries) :
             /\ entries[i].post \in 1..Len(anPosts)
             /\ entries[i].id = anPosts[entries[i].post]
             /\ entries[i].relevanceScore >= MIN_RELEVANCE_SCORE
       /\ \A i \in 1..(Len(entries) - 1) :
             entries[i].relevanceScore >= entries[i + 1].relevanceScore
       /\ out.totalAnalyzed = Len(entries)
       /\ out.highPriorityCount = Len(out.highPriorityPosts)
       /\ out.complaintCount = Len(out.complaints)

\* What holds of the output for every input and every sequence of replies.
Aux_C29_SortedAndCounted == AnalysisReturned => EntriesSortedAndCounted

\* C29: analyzedPosts holds each input post at most once, every entry is an
\* input post with relevanceScore >= MIN_RELEVANCE_SCORE, the list is in
\* descending order of relevanceScore, and totalAnalyzed, highPriorityCount
\* and complaintCount are the lengths of analyzedPosts, highPriorityPosts
\* and complaints.
Cex_C29_EachPostOnce ==
    AnalysisReturned =>
        /\ \A i, j \in 1..Len(anResult.output.analyzedPosts) :
              i # j => anResult.output.analyzedPosts[i].post # anResult.output.analyzedPosts[j].post
        /\ EntriesSortedAndCounted

(***************************************************************************)
(* Claims about the executors.                                             *)
(***************************************************************************)

IsResult(r) ==
    \/ r.success = TRUE /\ DOMAIN r = {"success", "output"}
    \/ r.success = FALSE /\ DOMAIN r = {"success", "error"} /\ r.error.t = "string"

\* C1: whatever the input, the context and the downstream behaviour, an
\* executor call never settles by rejecting, and once it has completed it
\* has returned {success: true, output} or {success: false, error: string}.
Thm_C1_ExecutorReturnsResult ==
    /\ exSettled # "rejected"
    /\ exPc = "done" => (exSettled = "fulfilled" /\ IsResult(exResult))

\* A downstream call raised a value that is not an Error and the executor
\* returned its fallback failure.
Wit_C1_ThrowBecameFailure ==
    /\ exPc = "done"
    /\ exLast = "threwNonError"
    /\ exSettled = "fulfilled"
    /\ exResult = Failure(FallbackError[exNode])

\* The credential the node requires is absent from context.credentials.
CredentialAbsent(context, node) ==
    LET req == RequiredCredential[node]
        c == context.credentials
    IN \/ c = Undefined
       \/ ~HasOwn(c, req.service)
       \/ ~HasOwn(OwnValue(c, req.service), req.key)

\* C3: when the required credential is absent the executor issues no
\* fetchWithRetry call, does not throw, and returns a failure Result whose
\* error names the missing service (the executor's "<Service> API key not
\* configured. Please provide context.credentials.<service>.<key>." text).
Cex_C3_MissingCredentialNamed ==
    (exNode # "none" /\ CredentialAbsent(exContext, exNode)) =>
        /\ exFetches = 0
        /\ exSettled # "rejected"
        /\ exPc = "done" => exResult = Failure(NotConfiguredError[exNode])

\* The input checks that twitter_monitor and linkedin_monitor make before
\* they look at the credential.
RejectedForKeywords ==
    \/ exNode = "twitter_monitor" /\ Len(exInput.keywords) = 0
    \/ exNode = "linkedin_monitor" /\ Len(TrimmedKeywords(exInput.keywords)) = 0

\* What holds of a missing credential: no fetch, no throw, a failure Result;
\* and the error names the service unless the keywords were rejected first.
Aux_C3_FailsWithoutFetch ==
    (exNode # "none" /\ CredentialAbsent(exContext, exNode)) =>
        /\ exFetches = 0
        /\ exSettled # "rejected"
        /\ exPc = "done" =>
            /\ IsResult(exResult)
            /\ ~exResult.success
            /\ ~RejectedForKeywords => exResult = Failure(NotConfiguredError[exNode])
            /\ RejectedForKeywords => exResult # Failure(NotConfiguredError[exNode])

\* The executors that loop over units: a batch of posts, a contact to draft
\* for, a contact to enrich.
MultiUnitNodes == {"social_ai_analyze", "draft_emails", "search_contacts"}

\* The downstream calls made on behalf of one unit, and the one after which
\* the unit's result is pushed.
UnitCalls == {"enrichApolloContact", "generateBody", "generateSubject", "generateText"}
PushingCalls == {"enrichApolloContact", "generateSubject", "generateText"}

\* The positions of the trace that hold a call, in order.
CallPositions == {k \in 1..Len(exLog) : exLog[k].op # "sleep"}

\* Unit i had a call whose outcome is in `bad`.
UnitHad(i, bad) ==
    \E k \in CallPositions :
        exLog[k].unit = i /\ exLog[k].op \in UnitCalls /\ exLog[k].outcome \in bad

\* The units whose result was pushed.
PushedUnits ==
    {i \in 1..Len(exUnits) :
        \E k \in CallPositions :
            exLog[k].unit = i /\ exLog[k].op \in PushingCalls /\ exLog[k].outcome = "good"}

\* A unit with an outcome in `bad` is skipped: the run ends in a success
\* Result, every later unit that has something to process had its call,
\* and the output holds every unit that was pushed.
SkipsUnitsWith(bad) ==
    (exNode \in MultiUnitNodes /\ exPc = "done") =>
        \A i \in 1..Len(exUnits) :
            UnitHad(i, bad) =>
                /\ exSettled = "fulfilled"
                /\ exResult.success
                /\ \A j \in (i + 1)..Len(exUnits) :
                      exUnits[j] => UnitHad(j, HelperFailures \cup TextOutcomes \cup EnrichReplies)
                /\ exResult.output.kept = Cardinality(PushedUnits)

\* The code's two ways of failing a unit: a reply that carries no usable
\* answer, and a downstream call that throws.
UnparseableReplies == {"noMatch", "badJson", "wrongShape"}

\* generateText of social_ai_analyze is awaited outside the per-batch try: a
\* throw of it reaches the executor's outer catch.
AnalyzeCallThrew ==
    exNode = "social_ai_analyze" /\ \E i \in 1..Len(exUnits) : UnitHad(i, HelperFailures)

\* What holds of the three loops: a unit whose reply is unparseable is
\* skipped, and so is a unit whose call throws inside the per-unit try of
\* draft_emails and search_contacts.
Aux_C22_InnerTrySkips ==
    ~AnalyzeCallThrew => SkipsUnitsWith(UnparseableReplies \cup HelperFailures)

\* A run of each loop that skipped a unit and still pushed another.
Aux_C22_SkippedAndKept ==
    /\ exNode \in MultiUnitNodes
    /\ exPc = "done"
    /\ ~AnalyzeCallThrew
    /\ \E i \in 1..Len(exUnits) : UnitHad(i, UnparseableReplies \cup HelperFailures)
    /\ exResult.success
    /\ exResult.output.kept > 0

\* C22: in social_ai_analyze, draft_emails and search_contacts a unit whose
\* reply is unparseable or whose processing fails is skipped: the later units
\* are still processed, the units already processed are kept and the run
\* returns a success Result.
Cex_C22_BadUnitSkipped == SkipsUnitsWith(UnparseableReplies \cup HelperFailures)

\* The executors that make a search-then-enrich or body-then-subject chain
\* of downstream calls.
ChainedCallNodes == {"search_contacts", "draft_emails"}

\* The calls after which the code reaches its `await sleep(200)`: an
\* enrichment that returned, and a subject generation that returned.
CallsFollowedBySleep ==
    {k \in CallPositions :
        \/ exLog[k].op = "enrichApolloContact" /\ exLog[k].outcome \notin HelperFailures
        \/ exLog[k].op = "generateSubject" /\ exLog[k].outcome = "good"}

\* What holds of the delays: sleep(200) follows exactly the calls that end
\* an iteration without throwing, and nothing else.
Aux_C23_SleepEndsCompletedIteration ==
    exNode \in ChainedCallNodes =>
        \A k \in 1..Len(exLog) :
            /\ k \in CallsFollowedBySleep => (k < Len(exLog) /\ exLog[k + 1].op = "sleep" /\ exLog[k + 1].ms = 200)
            /\ exLog[k].op = "sleep" => (k > 1 /\ (k - 1) \in CallsFollowedBySleep)

\* A twitter_monitor or linkedin_monitor call that returned posts.
MonitorReturned ==
    /\ exNode \in {"twitter_monitor", "linkedin_monitor"}
    /\ exPc = "done"
    /\ exResult.success

\* What holds of the monitors: totalFound is the number of posts returned,
\* and that number is at most maxResults whenever maxResults is positive.
Aux_C26_PositiveMaxResultsCaps ==
    MonitorReturned =>
        /\ exResult.output.total = exResult.output.kept
        /\ exInput.maxResults > 0 => exResult.output.kept <= exInput.maxResults

\* A monitor call whose API response was longer than maxResults and was cut.
Aux_C26_ResponseCut ==
    /\ MonitorReturned
    /\ exInput.maxResults = 1
    /\ exResult.output.kept = 1
    /\ exLast = "good"

\* C26: twitter_monitor and linkedin_monitor return at most maxResults
\* posts, maxResults being the caller's value or 50 when omitted, and
\* totalFound equals the number of posts returned.  (A negative maxResults
\* admits no number of posts and is left out.)
Cex_C26_AtMostMaxResults ==
    (MonitorReturned /\ exInput.maxResults >= 0) =>
        /\ exResult.output.kept <= exInput.maxResults
        /\ exResult.output.total = exResult.output.kept

\* A search_contacts call that returned contacts.
ContactsReturned ==
    /\ exNode = "search_contacts"
    /\ exPc = "done"
    /\ exResult.success

\* Every returned contact has a non-empty email, and the contacts are no
\* more than totalFound.
EmailsPresent ==
    /\ exResult.output.kept = Len(exPushed)
    /\ \A i \in 1..Len(exPushed) : exPushed[i].t = "string" /\ exPushed[i].s # ""
    /\ exResult.output.kept <= exResult.output.total

\* What holds of search_contacts: the emails are non-empty and the contacts
\* no more than totalFound for every response; the contacts are at most
\* limit when limit is positive and the response holds no more people than
\* the page size the request asked for.
Aux_C27_CappedByThePageSize ==
    ContactsReturned =>
        /\ EmailsPresent
        /\ (exInput.limit > 0 /\ Len(exUnits) <= PerPage(exInput)) =>
              exResult.output.kept <= exInput.limit

\* A search_contacts call that dropped a contact whose email is empty and
\* returned another.
Aux_C27_EmptyEmailDropped ==
    /\ ContactsReturned
    /\ exResult.output.kept = 1
    /\ \E k \in CallPositions : exLog[k].outcome = "emptyEmail"

\* C27: a successful search_contacts result holds at most limit contacts,
\* limit being the caller's value or 10 when omitted, every contact has a
\* non-empty email, and the contacts are no more than totalFound.  (A
\* negative limit admits no number of contacts and is left out.)
Cex_C27_AtMostLimit ==
    (ContactsReturned /\ exInput.limit >= 0) =>
        /\ exResult.output.kept <= exInput.limit
        /\ EmailsPresent

\* The URL a status reply carries: reply.output.url when the reply is
\* completed and has a non-empty string there, Undefined otherwise.
ReportedUrl(entry) ==
    IF /\ entry.op = "getSoraVideoStatus"
       /\ entry.reply # Undefined
       /\ OwnValue(entry.reply, "status") = Str("completed")
       /\ HasOwn(entry.reply, "output")
       /\ HasOwn(OwnValue(entry.reply, "output"), "url")
       /\ OwnValue(OwnValue(entry.reply, "output"), "url") # Str("")
    THEN OwnValue(OwnValue(entry.reply, "output"), "url")
    ELSE Undefined

\* C28: sora_video returns success only if a status poll reported completed
\* together with an output URL, and video.url is that URL; a poll that
\* reports failed, a wait that times out and a completion without URL all
\* end in a failure Result.
Thm_C28_SuccessOnlyWithReportedUrl ==
    (exNode = "sora_video" /\ exPc = "done") =>
        /\ exSettled = "fulfilled"
        /\ IsResult(exResult)
        /\ exResult.success <=> (exLog # <<>> /\ ReportedUrl(exLog[Len(exLog)]) # Undefined)
        /\ exResult.success => exResult.output.video.url = ReportedUrl(exLog[Len(exLog)])
        /\ \A k \in 1..Len(exLog) :
              (exLog[k].op = "getSoraVideoStatus" /\ exLog[k].outcome \in {"failed", "completedNoUrl"}) =>
                  (k = Len(exLog) /\ ~exResult.success)
        /\ (exLog # <<>> /\ exLog[Len(exLog)].op = "sleep") =>
              exResult = Failure("Video generation timed out")

\* A sora_video call that slept after a first poll and returned the URL the
\* second poll reported.
Wit_C28_VideoReturned ==
    /\ exNode = "sora_video"
    /\ exPc = "done"
    /\ exResult.success
    /\ Len(exLog) = 4
    /\ exLog[3].op = "sleep"
    /\ exResult.output.video.url = Str("https://v/2.mp4")

\* The outcomes of a status request after which waitForVideoCompletion
\* returns or throws.
FinalPollOutcomes == {"completed", "completedNoUrl", "failed"} \cup HelperFailures

\* One step of a sora_video call that is polling: once the wait has expired
\* no further status request is made and the call ends with the timeout
\* message; a status request that reports completed or failed, or that
\* throws, ends the call; one that reports anything else is followed by
\* sleep(5000) and the next round.
PollingStep ==
    (exNode = "sora_video" /\ exPc = "poll") =>
        /\ exElapsed >= MaxWaitRounds =>
              /\ exLog' = exLog
              /\ exPc' = "done"
              /\ exResult' = Failure("Video generation timed out")
        /\ exLog' # exLog =>
              /\ exLog'[Len(exLog) + 1].op = "getSoraVideoStatus"
              /\ exLog'[Len(exLog) + 1].outcome \in FinalPollOutcomes =>
                    (exPc' = "done" /\ Len(exLog') = Len(exLog) + 1)
              /\ exLog'[Len(exLog) + 1].outcome \notin FinalPollOutcomes =>
                    /\ exPc' = "poll"
                    /\ Len(exLog') = Len(exLog) + 2
                    /\ exLog'[Len(exLog) + 2].op = "sleep"
                    /\ exLog'[Len(exLog) + 2].ms = 5000
                    /\ exElapsed' > exElapsed

\* C24: every sora_video call eventually returns a Result, given that each
\* awaited request completes; polling stops as soon as a poll reports
\* completed or failed, stops with 'Video generation timed out' once the
\* wait has expired, and pauses 5 seconds between two polls.
Thm_C24_SoraVideoTerminates ==
    /\ [][PollingStep]_vars
    /\ (exNode = "sora_video") ~> (exPc = "done" /\ exSettled = "fulfilled" /\ IsResult(exResult))

\* A sora_video call that polled, slept, and then timed out.
Wit_C24_TimedOutAfterPolling ==
    /\ exNode = "sora_video"
    /\ exPc = "done"
    /\ exResult = Failure("Video generation timed out")
    /\ \E k \in 1..(Len(exLog) - 1) :
          /\ exLog[k].op = "getSoraVideoStatus"
          /\ exLog[k].outcome = "pending"
          /\ exLog[k + 1].op = "sleep"

\* C23: in search_contacts and draft_emails a delay separates every two
\* consecutive downstream calls, also when the earlier call failed.
Cex_C23_DelayBetweenCalls ==
    exNode \in ChainedCallNodes =>
        \A k \in 1..(Len(exLog) - 1) :
            (exLog[k].op # "sleep") => (exLog[k + 1].op = "sleep")

(***************************************************************************)
(* The callers of the registry: the web POST /api/execute handler and the  *)
(* CLI run command, up to and after their call of node.executor.           *)
(***************************************************************************)

TwitterMonitorInputSchema ==
    ZObject(<<"keywords", "excludeRetweets", "minLikes", "maxResults", "lang", "sinceDays">>,
            <<ZArray(ZString), ZDefault(ZOptional(ZBoolean), Bool(TRUE)), ZOptional(ZNumber),
              ZDefault(ZOptional(ZNumber), Num(50)), ZOptional(ZString), ZOptional(ZNumber)>>)

LinkedInMonitorInputSchema ==
    ZObject(<<"keywords", "timeFilter", "maxResults">>,
            <<ZArray(ZString), ZOptional(ZString), ZDefault(ZOptional(ZNumber), Num(50))>>)

\* The node types a request can name; the last one is not registered.
RequestNodeTypes == {"twitter_monitor", "linkedin_monitor", "no_such_node"}

\* registry.getDefinition(nodeType).inputSchema, or Undefined for no definition.
InputSchemaOf(nodeType) ==
    CASE nodeType = "twitter_monitor" -> TwitterMonitorInputSchema
      [] nodeType = "linkedin_monitor" -> LinkedInMonitorInputSchema
      [] OTHER -> ZUndefined

IsRegistered(nodeType) == nodeType \in {"twitter_monitor", "linkedin_monitor"}

\* The `input` a caller supplies.
RawInputs ==
    LET ts == Arr(<<Str("ts")>>) IN
    {Undefined, Null, Str("ts"), Arr(<<>>), EmptyObj,
     Obj(<<"keywords">>, <<ts>>),
     Obj(<<"keywords">>, <<Arr(<<>>)>>),
     Obj(<<"keywords">>, <<Str("ts")>>),
     Obj(<<"keywords">>, <<Arr(<<Num(1)>>)>>),
     Obj(<<"keywords", "maxResults">>, <<ts, Num(5)>>),
     Obj(<<"keywords", "maxResults">>, <<ts, Str("5")>>),
     Obj(<<"keywords", "maxResults">>, <<ts, Null>>),
     Obj(<<"keywords", "extra">>, <<ts, Num(1)>>),
     Obj(<<"maxResults">>, <<Num(5)>>)}

\* The keys, in shape order, that a parsed object carries, with their values.
RECURSIVE ParsedFields(_, _, _)
ParsedFields(keys, parsed, data) ==
    IF keys = <<>> THEN EmptyObj
    ELSE LET rest == ParsedFields(Tail(keys), Tail(parsed), data) IN
         IF Head(parsed) # Undefined \/ HasOwn(data, Head(keys))
         THEN Obj(<<Head(keys)>> \o rest.keys, <<Head(parsed)>> \o rest.vals)
         ELSE rest

\* The value schema.parse returns for a value the schema accepts: defaults
\* filled in, undeclared keys stripped.
RECURSIVE ParseValue(_, _)
ParseValue(def, v) ==
    CASE def.typeName = "ZodDefault" ->
            ParseValue(def.innerType, IF v.t = "undefined" THEN def.defaultValue ELSE v)
      [] def.typeName = "ZodOptional" ->
            IF v.t = "undefined" THEN v ELSE ParseValue(def.innerType, v)
      [] def.typeName = "ZodNullable" ->
            IF v.t = "null" THEN v ELSE ParseValue(def.innerType, v)
      [] def.typeName = "ZodArray" ->
            Arr([i \in 1..Len(v.items) |-> ParseValue(def.type, v.items[i])])
      [] def.typeName = "ZodObject" ->
            ParsedFields(def.keys,
                         [i \in 1..Len(def.keys) |-> ParseValue(def.shape[i], Field(v, def.keys[i]))],
                         v)
      [] OTHER -> v

\* inputSchema.parse(input): returns the parsed value or throws a ZodError.
ParseMutant(def, v) == [threw |-> FALSE, value |-> v]

Parse(def, v) ==
    IF Accepts(def, v)
    THEN [threw |-> FALSE, value |-> ParseValue(def, v)]
    ELSE [threw |-> TRUE, value |-> Undefined]

\* What the credential store holds for a required service, and, when it
\* holds nothing, whether the user agrees to save the prompted key.
CredentialStores == {"stored", "absent, save", "absent"}

\* The requests the callers receive.
Requests ==
    [nodeType : RequestNodeTypes, input : RawInputs, mockMode : BOOLEAN, badJson : BOOLEAN,
     credentials : CredentialStores]

NoRequest ==
    [nodeType |-> "", input |-> Undefined, mockMode |-> FALSE, badJson |-> FALSE,
     credentials |-> "absent"]

\* NODE_SERVICE_REQUIREMENTS[nodeType] || []
RequiredServices(nodeType) ==
    CASE nodeType = "twitter_monitor" -> <<"twitter">>
      [] nodeType = "linkedin_monitor" -> <<"forumScout">>
      [] OTHER -> <<>>

CredentialOp(by, op, service) == [by |-> by, op |-> op, service |-> service]

\* The credential steps of `jam run` for the required services, in order.
RECURSIVE CliCollectCredentials(_, _)
CliCollectCredentials(services, store) ==
    IF services = <<>> THEN <<>>
    ELSE LET service == Head(services) IN
         (IF store = "stored"
          THEN <<CredentialOp("cli", "getCredentialSource", service),
                 CredentialOp("cli", "getCredentials", service)>>
          ELSE <<CredentialOp("cli", "getCredentialSource", service),
                 CredentialOp("cli", "promptForCredentials", service),
                 CredentialOp("cli", "promptSaveCredentials", service)>>
                   \o (IF store = "absent, save"
                       THEN <<CredentialOp("cli", "saveCredentials", service)>>
                       ELSE <<>>))
            \o CliCollectCredentials(Tail(services), store)

\* The credential steps of `jam run`: none with --mock.
CliCredentialSteps(request) ==
    IF Len(RequiredServices(request.nodeType)) > 0 /\ ~request.mockMode
    THEN CliCollectCredentials(RequiredServices(request.nodeType), request.credentials)
    ELSE <<>>

\* NodeRunner.handleSubmit: getCredential(service) for every required service.
WebClientCollectCredentials(services) ==
    [i \in 1..Len(services) |-> CredentialOp("web client", "getCredential", services[i])]
\* The names under which the credentials mapping handed to createServices
\* holds an entry: the run command stores or prompts one for every required
\* service; the web client sends the ones its store holds.
SuppliedCredentials(caller, request) ==
    IF caller = "cli" \/ request.credentials = "stored"
    THEN {RequiredServices(request.nodeType)[i] : i \in 1..Len(RequiredServices(request.nodeType))}
    ELSE {}

\* The context object literal both callers build: these five members and no
\* other.
PlaygroundContext(services) ==
    Obj(<<"userId", "workflowExecutionId", "variables", "resolveNestedPath", "services">>,
        <<Str("playground"), Str("playground_<now>"), EmptyObj, Fn("resolveNestedPath"), services>>)

\* The two members of the context the executors read, as member reads.
ExecutorView(context) ==
    [credentials |-> GetProp(context, "credentials").value,
     variables |-> GetProp(context, "variables").value]

NoReply == [status |-> "none", body |-> NoResult]
Reply(status, body) == [status |-> status, body |-> body]

CallerInit ==
    /\ clCaller = "none"
    /\ clPc = "idle"
    /\ clRequest = NoRequest
    /\ clInvocations = <<>>
    /\ clContext = Undefined
    /\ clCredentialOps = <<>>
    /\ clReply = NoReply

TwitterMonitorOutputSchema ==
    ZObject(<<"posts", "totalFound", "hasMore", "cursor">>,
            <<ZArray(ZObject(
                <<"id", "platform", "url", "text", "authorName", "authorHandle", "authorUrl",
                  "authorFollowers", "engagement", "postedAt">>,
                <<ZString, ZLiteral(Str("twitter")), ZString, ZString, ZString, ZString, ZString,
                  ZNumber,
                  ZObject(<<"likes", "comments", "shares", "views">>,
                          <<ZNumber, ZNumber, ZNumber, ZNumber>>),
                  ZString>>)),
              ZNumber, ZBoolean, ZOptional(ZString)>>)

LinkedInMonitorOutputSchema ==
    ZObject(<<"posts", "totalFound">>,
            <<ZArray(ZObject(
                <<"id", "platform", "url", "text", "authorName", "authorHandle", "authorUrl",
                  "authorFollowers", "authorHeadline", "engagement", "hashtags", "postedAt">>,
                <<ZString, ZLiteral(Str("linkedin")), ZString, ZString, ZString, ZString, ZString,
                  ZNumber, ZOptional(ZString),
                  ZObject(<<"likes", "comments", "shares">>, <<ZNumber, ZNumber, ZNumber>>),
                  ZArray(ZString), ZString>>)),
              ZNumber>>)

OutputSchemaOf(nodeType) ==
    IF nodeType = "twitter_monitor" THEN TwitterMonitorOutputSchema
    ELSE LinkedInMonitorOutputSchema

\* The ways the awaited executor call can settle, as its caller sees it.
ExecutorCompletions ==
    {Fulfil(Success(Output(1, 1))), Fulfil(Failure("Twitter API error: 401 - ")),
     Reject(NewError("boom"))}

\* POST /api/execute, from the request to the first of: a response, the
\* await of node.executor(validatedInput, context).
WebHandle(request) ==
    IF request.badJson
    THEN /\ clReply' = Reply("500", Failure("Unexpected end of JSON input"))
         /\ clPc' = "done"
         /\ UNCHANGED <<clInvocations, clContext, clCredentialOps>>
    ELSE IF ~IsRegistered(request.nodeType)
    THEN /\ clReply' = Reply("404", Failure("Node not found: no_such_node"))
         /\ clPc' = "done"
         /\ UNCHANGED <<clInvocations, clContext, clCredentialOps>>
    ELSE IF request.mockMode
    THEN /\ clReply' = Reply("200", Success(GetMockOutput(request.nodeType,
                                OutputSchemaOf(request.nodeType), mkWebLoad)))
         /\ clPc' = "done"
         /\ UNCHANGED <<clInvocations, clContext, clCredentialOps>>
    ELSE LET validatedInput == Parse(InputSchemaOf(request.nodeType), request.input) IN
         IF validatedInput.threw
         THEN /\ clReply' = Reply("400", Failure("Invalid input: ZodError"))
              /\ clPc' = "done"
              /\ UNCHANGED <<clInvocations, clContext, clCredentialOps>>
         ELSE /\ clInvocations' = Append(clInvocations, validatedInput.value)
              /\ clContext' = PlaygroundContext(CreateServices(SuppliedCredentials("web", request)))
              /\ clCredentialOps' =
                    Append(clCredentialOps,
                           CredentialOp("web server", "createServices", "credentials"))
              /\ clPc' = "executing"
              /\ UNCHANGED clReply

\* A request sent to POST /api/execute by any HTTP client.
WebPost ==
    /\ clPc = "idle"
    /\ \E request \in Requests :
         /\ clRequest' = request
         /\ WebHandle(request)
    /\ clCaller' = "web"
    /\ UNCHANGED notCallerVars

\* The playground form is submitted (InputForm.handleFormSubmit) and
\* NodeRunner.handleSubmit collects the stored credentials and posts the
\* request.  The values are drawn as onFormSubmit passes them on; without
\* mock mode the form submits only values its resolver accepted, and the
\* mock toggle exists only for nodes that require a service.
WebFormSubmit ==
    /\ clPc = "idle"
    /\ \E request \in Requests :
         /\ IsRegistered(request.nodeType)
         /\ ~request.badJson
         /\ request.input.t = "object"
         /\ request.mockMode => Len(RequiredServices(request.nodeType)) > 0
         /\ ~request.mockMode => Accepts(InputSchemaOf(request.nodeType), request.input)
         /\ clRequest' = request
         /\ clCredentialOps' = WebClientCollectCredentials(RequiredServices(request.nodeType))
    /\ clPc' = "posted"
    /\ clCaller' = "web"
    /\ UNCHANGED <<clInvocations, clContext, clReply>>
    /\ UNCHANGED notCallerVars

\* The request posted by the form reaches POST /api/execute.
WebPostFromForm ==
    /\ clPc = "posted"
    /\ WebHandle(clRequest)
    /\ UNCHANGED <<clCaller, clRequest>>
    /\ UNCHANGED notCallerVars

\* The awaited executor call settles: the result is the response body, a
\* rejection goes to the handler's outer catch.
WebExecutorSettles ==
    /\ clCaller = "web"
    /\ clPc = "executing"
    /\ \E c \in ExecutorCompletions :
         clReply' = IF c.settled = "fulfilled" THEN Reply("200", c.value)
                    ELSE Reply("500", Failure("boom"))
    /\ clPc' = "done"
    /\ UNCHANGED <<clCaller, clRequest, clInvocations, clContext, clCredentialOps>>
    /\ UNCHANGED notCallerVars

\* `jam run <nodeType>`, from the command line to the first of: an exit, a
\* printed outcome, the await of definition.executor(validatedInput, context).
CliRun ==
    /\ clPc = "idle"
    /\ \E request \in Requests :
         /\ clRequest' = request
         /\ clCredentialOps' =
               IF IsRegistered(request.nodeType) THEN CliCredentialSteps(request) ELSE <<>>
         /\ IF ~IsRegistered(request.nodeType)
            THEN /\ clReply' = Reply("exit 1", Failure("Unknown node type: no_such_node"))
                 /\ clPc' = "done"
                 /\ UNCHANGED <<clInvocations, clContext>>
            ELSE IF request.badJson
            THEN /\ clReply' = Reply("exit 1", Failure("Invalid JSON input"))
                 /\ clPc' = "done"
                 /\ UNCHANGED <<clInvocations, clContext>>
            ELSE IF request.mockMode
            THEN /\ clReply' = Reply("printed", Success(GenerateMockOutput(request.nodeType,
                                        OutputSchemaOf(request.nodeType), mkClock)))
                 /\ clPc' = "done"
                 /\ UNCHANGED <<clInvocations, clContext>>
            ELSE LET validatedInput == Parse(InputSchemaOf(request.nodeType), request.input) IN
                 IF validatedInput.threw
                 THEN /\ clReply' = Reply("Execution failed", Failure("ZodError"))
                      /\ clPc' = "done"
                      /\ UNCHANGED <<clInvocations, clContext>>
                 ELSE /\ clInvocations' = Append(clInvocations, validatedInput.value)
                      /\ clContext' = PlaygroundContext(CreateMockServices(SuppliedCredentials("cli", request)))
                      /\ clPc' = "executing"
                      /\ UNCHANGED clReply
    /\ clCaller' = "cli"
    /\ UNCHANGED notCallerVars

\* The awaited executor call settles: the result is printed, a rejection
\* goes to the inner catch that prints "Execution failed".
CliExecutorSettles ==
    /\ clCaller = "cli"
    /\ clPc = "executing"
    /\ \E c \in ExecutorCompletions :
         clReply' = IF c.settled = "fulfilled" THEN Reply("printed", c.value)
                    ELSE Reply("Execution failed", Failure("boom"))
    /\ clPc' = "done"
    /\ UNCHANGED <<clCaller, clRequest, clInvocations, clContext, clCredentialOps>>
    /\ UNCHANGED notCallerVars

NextCallers ==
    \/ WebPost
    \/ WebFormSubmit
    \/ WebPostFromForm
    \/ WebExecutorSettles
    \/ CliRun
    \/ CliExecutorSettles

(***************************************************************************)
(* Claims about the callers.                                               *)
(***************************************************************************)

\* The request reached the validation step of its caller.
ReachedValidation ==
    /\ clPc # "idle"
    /\ IsRegistered(clRequest.nodeType)
    /\ ~clRequest.badJson
    /\ ~clRequest.mockMode

\* C2: in both callers the executor is invoked only with the value that the
\* node's inputSchema returned for the caller's input, and an input the
\* schema rejects ends the run with a failure and no executor call (in the
\* web handler a 400 response whose body is {success: false, error}).
Thm_C2_ValidatedBeforeInvoked ==
    /\ Len(clInvocations) <= 1
    /\ \A i \in 1..Len(clInvocations) :
         /\ ReachedValidation
         /\ Accepts(InputSchemaOf(clRequest.nodeType), clRequest.input)
         /\ clInvocations[i] = ParseValue(InputSchemaOf(clRequest.nodeType), clRequest.input)
    /\ (ReachedValidation /\ ~Accepts(InputSchemaOf(clRequest.nodeType), clRequest.input)) =>
         /\ clInvocations = <<>>
         /\ clPc = "done"
         /\ IsResult(clReply.body) /\ ~clReply.body.success
         /\ clCaller = "web" => clReply.status = "400"
         /\ clCaller = "cli" => clReply.status = "Execution failed"

\* The web handler refused an input whose maxResults is a string.
Wit_C2_InvalidInputRefused ==
    /\ clCaller = "web"
    /\ clRequest.nodeType = "twitter_monitor"
    /\ clRequest.input = Obj(<<"keywords", "maxResults">>, <<Arr(<<Str("ts")>>), Str("5")>>)
    /\ ~clRequest.mockMode /\ ~clRequest.badJson
    /\ clReply.status = "400"
    /\ clInvocations = <<>>

\* The CLI invoked the executor with the parsed value, which differs from
\* the raw input by the defaults and the stripped key.
Aux_C2_ParsedValuePassed ==
    (/\ clCaller = "cli"
     /\ clRequest.nodeType = "linkedin_monitor"
     /\ clRequest.input = Obj(<<"keywords", "extra">>, <<Arr(<<Str("ts")>>), Num(1)>>)
     /\ clPc = "executing") =>
        clInvocations = <<Obj(<<"keywords", "maxResults">>, <<Arr(<<Str("ts")>>), Num(50)>>)>>

\* The run was made in mock mode for a registered node and has ended.
MockRunEnded ==
    /\ clPc = "done"
    /\ clRequest.mockMode
    /\ IsRegistered(clRequest.nodeType)
    /\ ~clRequest.badJson

\* What a mock run of the caller reports for the node type.
MockReplyOf(caller, nodeType) ==
    IF caller = "web"
    THEN Reply("200", Success(GetMockOutput(nodeType, OutputSchemaOf(nodeType), mkWebLoad)))
    ELSE Reply("printed", Success(GenerateMockOutput(nodeType, OutputSchemaOf(nodeType), mkClock)))

\* A mock run never invokes the executor and reports {success: true,
\* output} with the mock output of the node type.
Aux_C16_MockRunSucceeds ==
    /\ clRequest.mockMode => clInvocations = <<>>
    /\ MockRunEnded => clReply = MockReplyOf(clCaller, clRequest.nodeType)

\* In a mock run neither the CLI nor the web handler touches a credential,
\* and nothing is prompted for: the only credential steps are the reads
\* NodeRunner.handleSubmit makes before it posts.
Aux_C16_OnlyTheFormReadsCredentials ==
    clRequest.mockMode =>
        \A i \in 1..Len(clCredentialOps) :
            clCredentialOps[i].by = "web client" /\ clCredentialOps[i].op = "getCredential"

Aux_C25_ContextHasNoCredentials ==
    clPc = "executing" =>
        /\ ~HasOwn(clContext, "credentials")
        /\ CredentialAbsent(ExecutorView(clContext), clRequest.nodeType)
        /\ ReadApiKey(ExecutorView(clContext), clRequest.nodeType) = Undefined
        /\ clCaller = "cli" =>
              \A n \in SuppliedCredentials(clCaller, clRequest) :
                  OwnValue(clContext, "services")[n] # AbsentService

MaxRequests == 2

RequestIds == 1..MaxRequests

\* The types of builtInNodes, in the order of the array.
BuiltInNodes == <<"conditional", "end", "delay", "map", "filter", "http_request">>

\* for (const node of builtInNodes) registry.register(node)
RECURSIVE RegisterAll(_, _)
RegisterAll(defs, nodes) ==
    IF nodes = <<>> THEN defs
    ELSE RegisterAll(Register(defs, [type |-> Head(nodes), name |-> Head(nodes)]).defs,
                     Tail(nodes))

\* The requests the handler receives: a node type, the mockMode flag and
\* whether the node's inputSchema accepts the input.
ServerRequests ==
    [nodeType : {"conditional", "http_request", "no_such_node"}, mockMode : BOOLEAN,
     accepted : BOOLEAN]

NoServerRequest == [nodeType |-> "", mockMode |-> FALSE, accepted |-> FALSE]

\* The identity a newly created object gets.
NewObjectMutant(next) == 0

NewObject(next) == next

NoObject == -1

\* A context: its variables object, its services object, and the variables
\* object its resolveNestedPath closure reads.
NoRequestContext == [variables |-> NoObject, services |-> NoObject, resolves |-> NoObject]

\* const context = {variables: {}, resolveNestedPath: (path) => ...
\* context.variables ..., services: createServices(credentials || {})}
NewContext(next) ==
    LET variables == NewObject(next) IN
    [variables |-> variables, services |-> NewObject(next + 1), resolves |-> variables]

\* An object reached through a member of the context.
Reach(via, object) == [via |-> via, object |-> object]

ObjectsOf(context) == {context.variables, context.services, context.resolves} \ {NoObject}

ServerInit ==
    /\ rqLoaded = FALSE
    /\ rqRegistry = <<>>
    /\ rqPc = [r \in RequestIds |-> "idle"]
    /\ rqRequest = [r \in RequestIds |-> NoServerRequest]
    /\ rqContext = [r \in RequestIds |-> NoRequestContext]
    /\ rqReached = [r \in RequestIds |-> {}]
    /\ rqNextObject = 1
    /\ rqReply = [r \in RequestIds |-> "none"]

\* The route module is loaded: the registry is created and filled.
ModuleLoad ==
    /\ ~rqLoaded
    /\ rqLoaded' = TRUE
    /\ rqRegistry' = RegisterAll(<<>>, BuiltInNodes)
    /\ UNCHANGED <<rqPc, rqRequest, rqContext, rqReached, rqNextObject, rqReply>>
    /\ UNCHANGED notServerVars

\* POST /api/execute for request r, up to its response or to the await of
\* node.executor(validatedInput, context).
ServerPost(r) ==
    /\ rqLoaded
    /\ rqPc[r] = "idle"
    /\ \E request \in ServerRequests :
         /\ rqRequest' = [rqRequest EXCEPT ![r] = request]
         /\ IF GetDefinition(rqRegistry, request.nodeType) = NoDefinition
            THEN /\ rqReply' = [rqReply EXCEPT ![r] = "404"]
                 /\ rqPc' = [rqPc EXCEPT ![r] = "done"]
                 /\ UNCHANGED <<rqContext, rqNextObject>>
            ELSE IF request.mockMode
            THEN /\ rqReply' = [rqReply EXCEPT ![r] = "200"]
                 /\ rqPc' = [rqPc EXCEPT ![r] = "done"]
                 /\ UNCHANGED <<rqContext, rqNextObject>>
            ELSE IF ~request.accepted
            THEN /\ rqReply' = [rqReply EXCEPT ![r] = "400"]
                 /\ rqPc' = [rqPc EXCEPT ![r] = "done"]
                 /\ UNCHANGED <<rqContext, rqNextObject>>
            ELSE /\ rqContext' = [rqContext EXCEPT ![r] = NewContext(rqNextObject)]
                 /\ rqNextObject' = rqNextObject + 2
                 /\ rqPc' = [rqPc EXCEPT ![r] = "executing"]
                 /\ UNCHANGED rqReply
    /\ UNCHANGED <<rqLoaded, rqRegistry, rqReached>>
    /\ UNCHANGED notServerVars

\* The executor of request r reads context.variables.
ExecutorReadsVariables(r) ==
    /\ rqPc[r] = "executing"
    /\ Reach("variables", rqContext[r].variables) \notin rqReached[r]
    /\ rqReached' = [rqReached EXCEPT ![r] = @ \cup {Reach("variables", rqContext[r].variables)}]
    /\ UNCHANGED <<rqLoaded, rqRegistry, rqPc, rqRequest, rqContext, rqNextObject, rqReply>>
    /\ UNCHANGED notServerVars

\* The executor of request r calls context.resolveNestedPath(path).
ExecutorResolvesPath(r) ==
    /\ rqPc[r] = "executing"
    /\ Reach("resolveNestedPath", rqContext[r].resolves) \notin rqReached[r]
    /\ rqReached' = [rqReached EXCEPT ![r] = @ \cup {Reach("resolveNestedPath", rqContext[r].resolves)}]
    /\ UNCHANGED <<rqLoaded, rqRegistry, rqPc, rqRequest, rqContext, rqNextObject, rqReply>>
    /\ UNCHANGED notServerVars

\* The executor of request r uses context.services.
ExecutorUsesServices(r) ==
    /\ rqPc[r] = "executing"
    /\ Reach("services", rqContext[r].services) \notin rqReached[r]
    /\ rqReached' = [rqReached EXCEPT ![r] = @ \cup {Reach("services", rqContext[r].services)}]
    /\ UNCHANGED <<rqLoaded, rqRegistry, rqPc, rqRequest, rqContext, rqNextObject, rqReply>>
    /\ UNCHANGED notServerVars

\* The awaited executor call of request r settles and the handler responds.
ServerExecutorSettles(r) ==
    /\ rqPc[r] = "executing"
    /\ \E status \in {"200", "500"} : rqReply' = [rqReply EXCEPT ![r] = status]
    /\ rqPc' = [rqPc EXCEPT ![r] = "done"]
    /\ UNCHANGED <<rqLoaded, rqRegistry, rqRequest, rqContext, rqReached, rqNextObject>>
    /\ UNCHANGED notServerVars

NextServer ==
    \/ ModuleLoad
    \/ \E r \in RequestIds : ServerPost(r)
    \/ \E r \in RequestIds : ExecutorReadsVariables(r)
    \/ \E r \in RequestIds : ExecutorResolvesPath(r)
    \/ \E r \in RequestIds : ExecutorUsesServices(r)
    \/ \E r \in RequestIds : ServerExecutorSettles(r)

(***************************************************************************)
(* Claims about concurrent requests.                                       *)
(***************************************************************************)

\* C14: under every interleaving of POST /api/execute requests, the
\* registry holds exactly what the register loop put there at module load,
\* each executing request has a context of its own objects whose
\* resolveNestedPath reads its own variables, and no object that one
\* request's executor can reach belongs to another request's context.
Thm_C14_RequestsShareNothing ==
    /\ rqRegistry = IF rqLoaded THEN RegisterAll(<<>>, BuiltInNodes) ELSE <<>>
    /\ \A r \in RequestIds :
         /\ rqPc[r] = "executing" =>
              /\ rqContext[r] # NoRequestContext
              /\ rqContext[r].resolves = rqContext[r].variables
              /\ rqContext[r].services # rqContext[r].variables
         /\ \A reach \in rqReached[r] : reach.object \in ObjectsOf(rqContext[r])
    /\ \A r1, r2 \in RequestIds :
         r1 # r2 => ObjectsOf(rqContext[r1]) \cap ObjectsOf(rqContext[r2]) = {}

\* Two requests are executing at once, each having read its own variables.
Wit_C14_TwoExecuting ==
    /\ \A r \in RequestIds : rqPc[r] = "executing"
    /\ rqReached[1] =
         {Reach("variables", rqContext[1].variables), Reach("services", rqContext[1].services)}
    /\ rqReached[2] = {Reach("resolveNestedPath", rqContext[2].variables)}
    /\ rqContext[1] # rqContext[2]
    /\ Len(rqRegistry) = 6

(***************************************************************************)
(* Field derivation: extractFieldsFromSchema / getExampleValue /           *)
(* generateExampleFromSchema of the web form (InputForm.tsx) and           *)
(* generatePromptsFromSchema of the CLI.  Labels, messages and             *)
(* descriptions are strings derived from the key alone and are left out.   *)
(***************************************************************************)

\* Bound on the Optional / Nullable / Default wrappers around a field's type.
MaxWrapDepth == 2

\* The types a field is declared with, before any wrapper.
InnerTypes ==
    {ZString, ZNumber, ZBoolean, ZEnum(<<"draft", "sent">>), ZEnum(<<>>), ZArray(ZString),
     ZArray(ZNumber), ZObject(<<"id">>, <<ZString>>), ZRecord(ZString),
     ZLiteral(Str("twitter")), ZDate}

\* A default value of the declared type, different from every synthetic value.
RECURSIVE DefaultOf(_)
DefaultOf(def) ==
    CASE def.typeName = "ZodString" -> Str("sora-2")
      [] def.typeName = "ZodNumber" -> Num(50)
      [] def.typeName = "ZodBoolean" -> Bool(FALSE)
      [] def.typeName = "ZodEnum" -> Str("sent")
      [] def.typeName = "ZodArray" -> Arr(<<>>)
      [] def.typeName = "ZodObject" -> Obj(<<"id">>, <<Str("d1")>>)
      [] def.typeName = "ZodRecord" -> EmptyObj
      [] def.typeName = "ZodLiteral" -> def.value
      [] def.typeName \in {"ZodOptional", "ZodNullable", "ZodDefault"} -> DefaultOf(def.innerType)
      [] OTHER -> Str("2026-01-01")

WrappersOver(S) ==
    {ZOptional(x) : x \in S} \cup {ZNullable(x) : x \in S} \cup {ZDefault(x, DefaultOf(x)) : x \in S}

RECURSIVE FieldSchemasUpTo(_)
FieldSchemasUpTo(d) ==
    IF d = 0 THEN InnerTypes ELSE InnerTypes \cup WrappersOver(FieldSchemasUpTo(d - 1))

FieldSchemas == FieldSchemasUpTo(MaxWrapDepth)

\* The schemas a form or a prompt is derived from: objects of one and two
\* fields, and roots that are not objects.
FormSchemas ==
    {ZObject(<<"topic">>, <<f>>) : f \in FieldSchemas}
        \cup {ZObject(<<"topic", "limit">>, <<ZString, f>>) : f \in FieldSchemas}
        \cup {ZObject(<<"limit", "topic">>, <<f, ZString>>) : f \in FieldSchemas}
        \cup {ZObject(<<"a", "b">>, <<ZOptional(ZNumber), ZString>>), ZObject(<<>>, <<>>),
              ZObject(<<"topic", "limit">>, <<ZString, ZDefault(ZNumber, Num(10))>>),
              ZString, ZDate, ZArray(ZObject(<<"topic">>, <<ZString>>)),
              ZOptional(ZObject(<<"topic">>, <<ZString>>)),
              ZRecord(ZString), ZUnion(<<>>), ZTuple(<<>>)}

\* The strings of a string array, as a JS array.
StringArray(values) == Arr([i \in 1..Len(values) |-> Str(values[i])])

\* The field names the model uses.
FieldNames == {"topic", "limit", "a", "b"}

\* `example_${cleanName}`: the generic fallback of getExampleValue.
TextExample ==
    [n \in FieldNames |->
        CASE n = "topic" -> "example_topic"
          [] n = "limit" -> "example_limit"
          [] n = "a" -> "example_a"
          [] OTHER -> "example_b"]

\* getExampleValue(fieldName, fieldType, options), for the field names the
\* model uses (none of them matches a name-specific branch other than
\* 'limit' for numbers).
GetExampleValue(fieldName, fieldType, options) ==
    IF fieldType = "select" /\ options # Undefined /\ Len(options.items) > 0
    THEN options.items[1]
    ELSE CASE fieldType = "checkbox" -> Bool(TRUE)
           [] fieldType = "number" -> Num(10)
           [] fieldType = "array" -> Arr(<<Str("example1"), Str("example2")>>)
           [] fieldType = "textarea" -> Obj(<<"example">>, <<Str("value")>>)
           [] OTHER -> Str(TextExample[fieldName])

\* The one level of unwrapping both derivations perform.
UnwrapOnce(fieldDef) ==
    IF fieldDef.typeName \in {"ZodOptional", "ZodDefault"} THEN fieldDef.innerType ELSE fieldDef

\* defaultValue after the unwrapping: fieldDef.defaultValue() of a Default.
DeclaredDefault(fieldDef) ==
    IF fieldDef.typeName = "ZodDefault" THEN fieldDef.defaultValue ELSE Undefined

\* The field type chain of extractFieldsFromSchema.
FieldTypeOfMutant(innerDef) ==
    CASE innerDef.typeName = "ZodNumber" -> "number"
      [] innerDef.typeName = "ZodBoolean" -> "checkbox"
      [] innerDef.typeName = "ZodEnum" -> "select"
      [] innerDef.typeName = "ZodArray" -> "array"
      [] OTHER -> "textarea"

FieldTypeOf(innerDef) ==
    CASE innerDef.typeName = "ZodNumber" -> "number"
      [] innerDef.typeName = "ZodBoolean" -> "checkbox"
      [] innerDef.typeName = "ZodEnum" -> "select"
      [] innerDef.typeName = "ZodArray" -> "array"
      [] innerDef.typeName \in {"ZodObject", "ZodRecord"} -> "textarea"
      [] OTHER -> "text"

\* isRequired / !isOptional: decided by the field's own typeName.
IsRequiredMutant(fieldDef) == fieldDef.typeName # "ZodOptional"

IsRequired(fieldDef) == fieldDef.typeName \notin {"ZodOptional", "ZodDefault"}

\* One FieldConfig of extractFieldsFromSchema.
FieldConfigOf(key, fieldDef) ==
    LET innerDef == UnwrapOnce(fieldDef)
        fieldType == FieldTypeOf(innerDef)
        options == IF innerDef.typeName = "ZodEnum" THEN StringArray(innerDef.values) ELSE Undefined
        declared == DeclaredDefault(fieldDef)
    IN [name |-> key,
        type |-> fieldType,
        required |-> IsRequired(fieldDef),
        default |-> IF declared = Undefined
                    THEN GetExampleValue(key, fieldType, options)
                    ELSE declared,
        options |-> options]

\* extractFieldsFromSchema(schema)
ExtractFieldsFromSchema(schema) ==
    IF schema.typeName # "ZodObject" THEN <<>>
    ELSE [i \in 1..Len(schema.keys) |-> FieldConfigOf(schema.keys[i], schema.shape[i])]

\* generateExampleFromSchema(schema)
RECURSIVE ExampleFrom(_)
ExampleFrom(fields) ==
    IF fields = <<>> THEN EmptyObj
    ELSE LET rest == ExampleFrom(Tail(fields))
             field == Head(fields)
         IN IF field.default # Undefined
            THEN Obj(<<field.name>> \o rest.keys, <<field.default>> \o rest.vals)
            ELSE rest

GenerateExampleFromSchema(schema) == ExampleFrom(ExtractFieldsFromSchema(schema))

\* The prompt type chain of generatePromptsFromSchema.
PromptTypeOf(innerDef) ==
    CASE innerDef.typeName = "ZodNumber" -> "number"
      [] innerDef.typeName = "ZodBoolean" -> "confirm"
      [] innerDef.typeName = "ZodEnum" -> "list"
      [] innerDef.typeName = "ZodArray" -> "input"
      [] innerDef.typeName = "ZodObject" -> "editor"
      [] OTHER -> "input"

\* One prompt of generatePromptsFromSchema.
PromptOf(key, fieldDef) ==
    LET innerDef == UnwrapOnce(fieldDef) IN
    [name |-> key,
     type |-> PromptTypeOf(innerDef),
     required |-> IsRequired(fieldDef),
     default |-> DeclaredDefault(fieldDef),
     options |-> IF innerDef.typeName = "ZodEnum" THEN StringArray(innerDef.values) ELSE Undefined]

\* generatePromptsFromSchema(schema)
GeneratePromptsFromSchema(schema) ==
    IF schema.typeName # "ZodObject" THEN <<>>
    ELSE [i \in 1..Len(schema.keys) |-> PromptOf(schema.keys[i], schema.shape[i])]

\* The sum of the numbers of a sequence.
RECURSIVE SumOf(_)
SumOf(ns) == IF ns = <<>> THEN 0 ELSE Head(ns) + SumOf(Tail(ns))

\* The number of generateFromDef invocations one CLI synthesis makes.
RECURSIVE GenerateCalls(_)
GenerateCalls(def) ==
    1 + CASE def.typeName = "ZodArray" -> 2 * GenerateCalls(def.type)
          [] def.typeName = "ZodObject" ->
                SumOf([i \in 1..Len(def.shape) |-> GenerateCalls(def.shape[i])])
          [] def.typeName \in {"ZodUnion", "ZodDiscriminatedUnion"} ->
                IF Len(def.options) > 0 THEN GenerateCalls(def.options[1]) ELSE 0
          [] def.typeName \in {"ZodOptional", "ZodNullable"} -> GenerateCalls(def.innerType)
          [] def.typeName = "ZodRecord" -> 2 * GenerateCalls(def.valueType)
          [] def.typeName = "ZodTuple" ->
                SumOf([i \in 1..Len(def.items) |-> GenerateCalls(def.items[i])])
          [] def.typeName = "ZodPromise" -> GenerateCalls(def.type)
          [] def.typeName = "ZodEffects" -> GenerateCalls(def.schema)
          [] OTHER -> 0

\* The number of generateFromDef invocations one web synthesis makes.
RECURSIVE WebGenerateCalls(_)
WebGenerateCalls(def) ==
    1 + CASE def.typeName = "ZodArray" -> WebGenerateCalls(def.type)
          [] def.typeName = "ZodObject" ->
                SumOf([i \in 1..Len(def.shape) |-> WebGenerateCalls(def.shape[i])])
          [] def.typeName \in {"ZodOptional", "ZodNullable"} -> WebGenerateCalls(def.innerType)
          [] OTHER -> 0

NoSchema == [typeName |-> "none"]
NotDerived == [ran |-> FALSE, value |-> <<>>]
NotSynthesized == [ran |-> FALSE, value |-> Undefined, calls |-> 0]

IntrospectInit ==
    /\ inSchema = NoSchema
    /\ inFields = NotDerived
    /\ inPrompts = NotDerived
    /\ inExample = NotSynthesized
    /\ inMock = NotSynthesized
    /\ inWebMock = NotSynthesized

\* A node is selected: its schema is what every derivation below reads.
SelectSchema ==
    /\ inSchema = NoSchema
    /\ \E schema \in FormSchemas : inSchema' = schema
    /\ UNCHANGED <<inFields, inPrompts, inExample, inMock, inWebMock>>
    /\ UNCHANGED notIntrospectVars

WebExtractFields ==
    /\ inSchema # NoSchema
    /\ ~inFields.ran
    /\ inFields' = [ran |-> TRUE, value |-> ExtractFieldsFromSchema(inSchema)]
    /\ UNCHANGED <<inSchema, inPrompts, inExample, inMock, inWebMock>>
    /\ UNCHANGED notIntrospectVars

CliGeneratePrompts ==
    /\ inSchema # NoSchema
    /\ ~inPrompts.ran
    /\ inPrompts' = [ran |-> TRUE, value |-> GeneratePromptsFromSchema(inSchema)]
    /\ UNCHANGED <<inSchema, inFields, inExample, inMock, inWebMock>>
    /\ UNCHANGED notIntrospectVars

WebGenerateExample ==
    /\ inSchema # NoSchema
    /\ ~inExample.ran
    /\ inExample' = [ran |-> TRUE, value |-> GenerateExampleFromSchema(inSchema),
                    calls |-> 0]
    /\ UNCHANGED <<inSchema, inFields, inPrompts, inMock, inWebMock>>
    /\ UNCHANGED notIntrospectVars

CliSynthesize ==
    /\ inSchema # NoSchema
    /\ ~inMock.ran
    /\ inMock' = [ran |-> TRUE, value |-> GenerateMockFromSchema(inSchema),
                 calls |-> GenerateCalls(inSchema)]
    /\ UNCHANGED <<inSchema, inFields, inPrompts, inExample, inWebMock>>
    /\ UNCHANGED notIntrospectVars

WebSynthesize ==
    /\ inSchema # NoSchema
    /\ ~inWebMock.ran
    /\ inWebMock' = [ran |-> TRUE, value |-> WebGenerateMockFromSchema(inSchema),
                    calls |-> WebGenerateCalls(inSchema)]
    /\ UNCHANGED <<inSchema, inFields, inPrompts, inExample, inMock>>
    /\ UNCHANGED notIntrospectVars

NextIntrospect ==
    \/ SelectSchema
    \/ WebExtractFields
    \/ CliGeneratePrompts
    \/ WebGenerateExample
    \/ CliSynthesize
    \/ WebSynthesize

(***************************************************************************)
(* Claims about schema introspection.                                      *)
(***************************************************************************)

\* The number of nodes of a schema tree.
RECURSIVE SchemaSize(_)
SchemaSize(def) ==
    1 + CASE def.typeName \in {"ZodArray", "ZodPromise"} -> SchemaSize(def.type)
          [] def.typeName = "ZodObject" ->
                SumOf([i \in 1..Len(def.shape) |-> SchemaSize(def.shape[i])])
          [] def.typeName \in {"ZodUnion", "ZodDiscriminatedUnion"} ->
                SumOf([i \in 1..Len(def.options) |-> SchemaSize(def.options[i])])
          [] def.typeName \in {"ZodOptional", "ZodNullable", "ZodDefault"} ->
                SchemaSize(def.innerType)
          [] def.typeName = "ZodRecord" -> SchemaSize(def.valueType)
          [] def.typeName = "ZodTuple" ->
                SumOf([i \in 1..Len(def.items) |-> SchemaSize(def.items[i])])
          [] def.typeName = "ZodEffects" -> SchemaSize(def.schema)
          [] OTHER -> 0

\* The typeNames each derivation has a branch for.
CliMockTags ==
    {"ZodString", "ZodNumber", "ZodBoolean", "ZodNull", "ZodUndefined", "ZodLiteral", "ZodEnum",
     "ZodNativeEnum", "ZodArray", "ZodObject", "ZodUnion", "ZodDiscriminatedUnion",
     "ZodOptional", "ZodNullable", "ZodDefault", "ZodRecord", "ZodTuple", "ZodPromise",
     "ZodEffects", "ZodUnknown", "ZodAny"}

WebMockTags ==
    {"ZodString", "ZodNumber", "ZodBoolean", "ZodNull", "ZodUndefined", "ZodLiteral", "ZodEnum",
     "ZodArray", "ZodObject", "ZodOptional", "ZodNullable", "ZodDefault"}

FieldTags == {"ZodNumber", "ZodBoolean", "ZodEnum", "ZodArray", "ZodObject", "ZodRecord"}

JsTypes ==
    {"undefined", "null", "number", "string", "boolean", "function", "object", "array"}

\* C11: on every finite schema tree both synthesizers and both field
\* derivations complete with a value (the synthesizers after a number of
\* calls bounded by the size of the tree, the derivations after one pass
\* over the fields); a schema whose typeName has no branch is synthesized
\* as null, and a field whose inner typeName has no branch is a text field
\* (an input prompt in the CLI).
Thm_C11_IntrospectionTotal ==
    /\ inMock.ran =>
         /\ inMock.value.t \in JsTypes
         /\ inMock.calls < 2 ^ SchemaSize(inSchema)
         /\ inSchema.typeName \notin CliMockTags => inMock.value = Null
    /\ inWebMock.ran =>
         /\ inWebMock.value.t \in JsTypes
         /\ inWebMock.calls <= SchemaSize(inSchema)
         /\ inSchema.typeName \notin WebMockTags => inWebMock.value = Null
    /\ inFields.ran =>
         /\ inSchema.typeName = "ZodObject" => Len(inFields.value) = Len(inSchema.keys)
         /\ \A i \in 1..Len(inFields.value) :
              UnwrapOnce(inSchema.shape[i]).typeName \notin FieldTags =>
                  inFields.value[i].type = "text"
    /\ inPrompts.ran =>
         /\ inSchema.typeName = "ZodObject" => Len(inPrompts.value) = Len(inSchema.keys)
         /\ \A i \in 1..Len(inPrompts.value) :
              UnwrapOnce(inSchema.shape[i]).typeName \notin FieldTags =>
                  inPrompts.value[i].type = "input"

\* A Date field: a text field, and null in the synthesized object.
Wit_C11_UnrecognizedField ==
    /\ inSchema = ZObject(<<"topic">>, <<ZDate>>)
    /\ inFields.ran /\ inFields.value[1].type = "text"
    /\ inMock.ran /\ inMock.value = Obj(<<"topic">>, <<Null>>)

Aux_C13_RequiredFieldsPresent ==
    inExample.ran /\ inSchema.typeName = "ZodObject" =>
        \A i \in 1..Len(inSchema.keys) :
            IsRequired(inSchema.shape[i]) => HasOwn(inExample.value, inSchema.keys[i])

\* {topic: String, limit: Number default 10}: the example holds a string
\* topic and limit 10, and the schema accepts it.
Aux_C13_TopicLimitExample ==
    inExample.ran
        /\ inSchema = ZObject(<<"topic", "limit">>, <<ZString, ZDefault(ZNumber, Num(10))>>) =>
            /\ inExample.value = Obj(<<"topic", "limit">>, <<Str("example_topic"), Num(10)>>)
            /\ Accepts(inSchema, inExample.value)

\* C13: the example generateExampleFromSchema builds for an object schema
\* is accepted by that schema.
Cex_C13_ExampleValidates ==
    inExample.ran /\ inSchema.typeName = "ZodObject" => Accepts(inSchema, inExample.value)

\* Whether a Default occurs in the Optional / Default / Nullable chain of a field.
RECURSIVE HasDefault(_)
HasDefault(def) ==
    CASE def.typeName = "ZodDefault" -> TRUE
      [] def.typeName \in {"ZodOptional", "ZodNullable"} -> HasDefault(def.innerType)
      [] OTHER -> FALSE

\* The value of the outermost Default of the chain.
RECURSIVE ChainDefault(_)
ChainDefault(def) ==
    CASE def.typeName = "ZodDefault" -> def.defaultValue
      [] def.typeName \in {"ZodOptional", "ZodNullable"} -> ChainDefault(def.innerType)
      [] OTHER -> Undefined

\* Both synthesizers yield d for a field whose chain contains Default(d).
Aux_C17_SynthesisYieldsDefault ==
    inSchema.typeName = "ZodObject" =>
        \A i \in 1..Len(inSchema.keys) :
            HasDefault(inSchema.shape[i]) =>
                /\ inMock.ran =>
                     Field(inMock.value, inSchema.keys[i]) = ChainDefault(inSchema.shape[i])
                /\ inWebMock.ran =>
                     Field(inWebMock.value, inSchema.keys[i]) = ChainDefault(inSchema.shape[i])

\* A field that is itself a Default(d) is derived as optional with default d.
Aux_C17_OutermostDefaultDerived ==
    inSchema.typeName = "ZodObject" =>
        \A i \in 1..Len(inSchema.keys) :
            inSchema.shape[i].typeName = "ZodDefault" =>
                /\ inFields.ran =>
                     /\ ~inFields.value[i].required
                     /\ inFields.value[i].default = inSchema.shape[i].defaultValue
                /\ inPrompts.ran =>
                     /\ ~inPrompts.value[i].required
                     /\ inPrompts.value[i].default = inSchema.shape[i].defaultValue

\* C17: whenever the wrapper chain of a field contains Default(d), in any
\* nesting order with Optional and Nullable, the derived descriptor has
\* required = false and default = d, and mock synthesis yields d.
Cex_C17_DefaultsAgree ==
    inFields.ran /\ inMock.ran /\ inSchema.typeName = "ZodObject" =>
        \A i \in 1..Len(inSchema.keys) :
            HasDefault(inSchema.shape[i]) =>
                /\ ~inFields.value[i].required
                /\ inFields.value[i].default = ChainDefault(inSchema.shape[i])
                /\ Field(inMock.value, inSchema.keys[i]) = ChainDefault(inSchema.shape[i])

\* The type of a field once every Optional and Default wrapper is removed.
RECURSIVE StripWrappers(_)
StripWrappers(def) ==
    IF def.typeName \in {"ZodOptional", "ZodDefault"} THEN StripWrappers(def.innerType) ELSE def

\* The form type the classification names for a type ('textarea' is the form
\* type of the object kind).
KindOf(def) ==
    CASE def.typeName = "ZodNumber" -> "number"
      [] def.typeName = "ZodBoolean" -> "checkbox"
      [] def.typeName = "ZodEnum" -> "select"
      [] def.typeName = "ZodArray" -> "array"
      [] def.typeName \in {"ZodObject", "ZodRecord"} -> "textarea"
      [] OTHER -> "text"

\* A field under at most one Optional or Default is classified by its inner
\* type, a select carrying the enum's values in declaration order.
Aux_C18_SingleWrapperClassified ==
    inFields.ran /\ inSchema.typeName = "ZodObject" =>
        \A i \in 1..Len(inSchema.keys) :
            UnwrapOnce(inSchema.shape[i]).typeName \notin {"ZodOptional", "ZodDefault"} =>
                /\ inFields.value[i].type = KindOf(StripWrappers(inSchema.shape[i]))
                /\ inFields.value[i].type = "select" =>
                     inFields.value[i].options =
                         StringArray(StripWrappers(inSchema.shape[i]).values)

\* C18: a field is classified by the type left after all its Optional and
\* Default wrappers are removed (Number under both Optional and Default is
\* a number field).
Cex_C18_ClassifiedByStrippedType ==
    inFields.ran /\ inSchema.typeName = "ZodObject" =>
        \A i \in 1..Len(inSchema.keys) :
            inFields.value[i].type = KindOf(StripWrappers(inSchema.shape[i]))

(***************************************************************************)
(* Claims about the synthesis of arrays and enums.                         *)
(***************************************************************************)

\* What the implementation that served the last call synthesizes for def.
SynthesisBy(impl, def) ==
    IF impl = "cli" THEN GenerateFromDef(def) ELSE WebGenerateFromDef(def)

\* The CLI synthesizer returns two items for an array, each the synthesis
\* of the item type.
Aux_C19_CliArrayOfTwo ==
    mkLast.fn = "generateMockFromSchema" /\ mkLast.impl = "cli"
        /\ mkLast.schema.typeName = "ZodArray" =>
            mkLast.value = Arr(<<GenerateFromDef(mkLast.schema.type),
                                GenerateFromDef(mkLast.schema.type)>>)

\* The web synthesizer returns one item for an array.
Aux_C19_WebArrayOfOne ==
    mkLast.fn = "generateMockFromSchema" /\ mkLast.impl = "web"
        /\ mkLast.schema.typeName = "ZodArray" =>
            mkLast.value = Arr(<<WebGenerateFromDef(mkLast.schema.type)>>)

\* C19: in the CLI and in the web implementation alike, the synthesis of
\* Array(item) is an array of exactly two elements, each equal to the
\* synthesis of item.
Cex_C19_ArrayOfTwo ==
    mkLast.fn = "generateMockFromSchema" /\ mkLast.schema.typeName = "ZodArray" =>
        /\ mkLast.value.t = "array"
        /\ Len(mkLast.value.items) = 2
        /\ \A i \in 1..Len(mkLast.value.items) :
             mkLast.value.items[i] = SynthesisBy(mkLast.impl, mkLast.schema.type)

\* The override table the implementation that served the last call consults.
OverrideTable ==
    IF mkLast.impl = "cli" THEN CustomMocks(mkLast.at) ELSE MockOutputs(mkWebLoad)

\* For a node type that is not the name of an inherited member, the entry is
\* returned when the table has one and the synthesis of the schema otherwise.
Aux_C21_OverrideFirst ==
    mkLast.fn = "generateMockOutput" /\ mkLast.nodeType \notin InheritedKeys =>
        mkLast.value = IF HasOwn(OverrideTable, mkLast.nodeType)
                       THEN OwnValue(OverrideTable, mkLast.nodeType)
                       ELSE SynthesisBy(mkLast.impl, mkLast.schema)

\* C21: generateMockOutput / getMockOutput return the override table's
\* entry whenever nodeType has an entry in the table, and exactly the
\* synthesis of outputSchema when it has none.
Cex_C21_OverrideOrSynthesis ==
    mkLast.fn = "generateMockOutput" =>
        mkLast.value = IF HasOwn(OverrideTable, mkLast.nodeType)
                       THEN OwnValue(OverrideTable, mkLast.nodeType)
                       ELSE SynthesisBy(mkLast.impl, mkLast.schema)

\* The positions of an enum object that hold declared members (the others
\* are the reverse mappings of a numeric enum).
MemberPositions(o) ==
    {j \in 1..Len(o.vals) :
        ~(o.vals[j].t = "string" /\ HasOwn(o, o.vals[j].s)
            /\ OwnValue(o, o.vals[j].s).t = "number")}

\* The value of the first declared member of an enum object.
FirstMemberValue(o) ==
    IF MemberPositions(o) = {} THEN Undefined
    ELSE o.vals[CHOOSE j \in MemberPositions(o) : \A k \in MemberPositions(o) : j <= k]

\* Both synthesizers return the first declared value of an Enum.
Aux_C20_EnumFirstValue ==
    mkLast.fn = "generateMockFromSchema" /\ mkLast.schema.typeName = "ZodEnum" =>
        mkLast.value = Str(mkLast.schema.values[1])

\* The CLI synthesizer returns the first member's value of a string enum.
Aux_C20_StringNativeEnum ==
    mkLast.fn = "generateMockFromSchema" /\ mkLast.impl = "cli"
        /\ mkLast.schema = ZNativeEnum(StringEnumObj) => mkLast.value = Str("red")

\* C20: the synthesis of Enum is its first declared value, and the
\* synthesis of NativeEnum is the value of its first declared member, a
\* value the enum accepts, for numeric enums too.
Cex_C20_FirstEnumMember ==
    mkLast.fn = "generateMockFromSchema" =>
        /\ mkLast.schema.typeName = "ZodEnum" =>
             mkLast.value = Str(mkLast.schema.values[1])
        /\ mkLast.schema.typeName = "ZodNativeEnum" =>
             /\ mkLast.value = FirstMemberValue(mkLast.schema.values)
             /\ mkLast.value \in ValidEnumValues(mkLast.schema.values)

\* The typeNames for which the two synthesizers have different branches:
\* an array is two items in the CLI and one in the web, and the others have
\* a branch in the CLI alone.
DivergingTags == (CliMockTags \ WebMockTags) \cup {"ZodArray"}

\* No schema that either synthesizer visits in def has a typeName in tags.
RECURSIVE FreeOf(_, _)
FreeOf(def, tags) ==
    /\ def.typeName \notin tags
    /\ CASE def.typeName = "ZodObject" ->
                \A i \in 1..Len(def.shape) : FreeOf(def.shape[i], tags)
          [] def.typeName \in {"ZodOptional", "ZodNullable"} -> FreeOf(def.innerType, tags)
          [] OTHER -> TRUE

\* Both synthesizers have run on the selected schema.
BothSynthesized == inMock.ran /\ inWebMock.ran

\* What holds of the two synthesizers: they return equal values for every
\* schema in which neither visits an array or a typeName only the CLI has a
\* branch for.
Aux_C30_AgreeOnSharedBranches ==
    (BothSynthesized /\ FreeOf(inSchema, DivergingTags)) => inMock.value = inWebMock.value

\* An object schema with a default, on which the two agree.
Aux_C30_AgreedOnObject ==
    /\ BothSynthesized
    /\ inSchema.typeName = "ZodObject"
    /\ Len(inSchema.shape) > 0
    /\ FreeOf(inSchema, DivergingTags)
    /\ inMock.value = inWebMock.value

\* C30: for every schema, generateMockFromSchema of the playground CLI and
\* generateMockFromSchema of playground-web return structurally equal
\* values.
Cex_C30_SynthesizersAgree == BothSynthesized => inMock.value = inWebMock.value

Init == FetchInit /\ RegInit /\ PathInit /\ SvcInit /\ MockInit /\ ExecInit /\ CallerInit /\ IntrospectInit
    /\ ServerInit /\ AnalyzeInit

SpecFetch == Init /\ [][NextFetch]_vars

SpecRegistry == Init /\ [][NextRegistry]_vars

SpecPath == Init /\ [][NextPath]_vars

SpecServices == Init /\ [][NextServices]_vars

SpecMock == Init /\ [][NextMock]_vars

SpecExec == Init /\ [][NextExec]_vars

\* The executor under the assumption that every awaited request, sleep and
\* continuation completes: a step that is enabled is eventually taken.
SpecExecLive == Init /\ [][NextExec]_vars /\ WF_vars(NextExec)

SpecCallers == Init /\ [][NextCallers]_vars

SpecIntrospect == Init /\ [][NextIntrospect]_vars

SpecServer == Init /\ [][NextServer]_vars

SpecAnalyze == Init /\ [][NextAnalyze]_vars

====
